---- MODULE Spec2Model ----
(***************************************************************************)
(* Eye-tracking heatmap: the HeatmapRenderer density field, the EyeTracker *)
(* gaze source and the EyeTrackingHeatmap component that drives them.      *)
(*                                                                         *)
(* Number representation.  JavaScript numbers are modelled in fixed point: *)
(*   - intensities (cells of heatmapData, falloff) in units of 1/Scale;    *)
(*   - gaze coordinates in half pixels (x2 = 2*x), so that Math.floor and  *)
(*     rounding to the nearest integer differ on the model's inputs;       *)
(*   - confidence in hundredths (30 is 0.3).                               *)
(***************************************************************************)
EXTENDS Integers, Sequences, FiniteSets, TLC

VARIABLES
  \* HeatmapRenderer
  heatmapData,        \* Array<Array<number>>: row y -> column x -> intensity
  width, height,      \* this.width, this.height
  isVisible,          \* this.isVisible
  canvas,             \* the canvas the renderer draws on: [width, height, image]
  \* window
  innerWidth, innerHeight,
  \* EyeTracker
  lastGazePoint,      \* this.lastGazePoint
  trackerReady,       \* isInitialized && detectionActive of the EyeTracker
  tracker,            \* the EyeTracker object's private fields
  video,              \* the <video> element and the browser around it
  log,                \* observation of the EyeTracker's steps (not state)
  \* EyeTrackingHeatmap component
  isInitialized, isTracking, showHeatmap, error,
  rendererRef,        \* heatmapRendererRef.current is set
  trackerRef,         \* eyeTrackerRef.current is set
  frames,             \* requestAnimationFrame queue: callbacks not yet run
  animationFrameRef,  \* animationFrameRef.current
  nextFrameId,        \* id the next requestAnimationFrame call returns
  currentGaze,
  fpsCounter, fps, debugMode,
  isInitializing,
  mountEffect,        \* the mount effect's tryInitialize: retryCount, timer
  browser,            \* what the page runs in: camera and network, storage
  now,                \* Date.now(), in milliseconds
  \* observation of the calls made (not program state)
  lastCall,           \* the last operation performed and its argument
  calls               \* number of addGazePoint calls made so far

rendererVars == <<heatmapData, width, height, isVisible, canvas>>
windowVars == <<innerWidth, innerHeight>>
internalVars == <<tracker, video, log>>
trackerVars == <<lastGazePoint, trackerReady, internalVars>>
mountVars == <<isInitializing, mountEffect, browser>>
componentVars == <<isInitialized, isTracking, showHeatmap, error, rendererRef,
                   trackerRef, frames, animationFrameRef, nextFrameId,
                   currentGaze, fpsCounter, fps, debugMode, mountVars, now>>
vars == <<rendererVars, windowVars, trackerVars, componentVars, lastCall, calls>>

\* a missing value (null / undefined)
NULL == [null |-> TRUE]

(***************************************************************************)
(* Bounds of the model                                                     *)
(***************************************************************************)
FieldW == 33      \* width of the large viewport (wider than the kernel radius)
FieldH == 2       \* height of the large viewport
SmallW == 3       \* width of the small viewport
SmallH == 1       \* height of the small viewport
MaxIngest == 2    \* addGazePoint calls explored with freely chosen samples
MaxFrames == 3    \* requestAnimationFrame calls explored
MaxClock == 1500  \* Date.now() explored up to this many milliseconds
MaxRuns == 3      \* runs of detect() explored

Viewports == {<<FieldW, FieldH>>, <<SmallW, SmallH>>}

(***************************************************************************)
(* Program constants                                                       *)
(***************************************************************************)
radius == 30
maxIntensity == 100
ConfThreshold == 30          \* 0.3, in hundredths
maxRetries == 10             \* retries of the mount effect
maxAttempts == 150           \* polls of waitForVideoReady
TimeoutMs == 15000           \* timeout of waitForVideoReady, in milliseconds
PollMs == 100                \* interval of its polls, in milliseconds

Scale == 1000 * 1000         \* fixed-point unit of an intensity: 1.0
MaxCell == maxIntensity * Scale

Min(a, b) == IF a <= b THEN a ELSE b

(***************************************************************************)
(* Math.exp(-d2 / 200) in fixed point.  ExpPow2[k+1] is exp(-(2^k)/200)    *)
(* rounded to 1/Scale; the exponent d2 is decomposed in binary.            *)
(***************************************************************************)
ExpPow2 == <<995012, 990050, 980199, 960789, 923116,
             852144, 726149, 527292, 278037, 77305>>

\* a * b / Scale for 0 <= a, b <= Scale, without leaving 32 bits
MulFix(a, b) == (((a \div 1000) * b) + (((a % 1000) * b) \div 1000)) \div 1000

RECURSIVE ExpNeg(_, _, _)
ExpNeg(d2, k, acc) ==
  IF d2 = 0 THEN acc
  ELSE ExpNeg(d2 \div 2, k + 1,
              IF d2 % 2 = 1 THEN MulFix(acc, ExpPow2[k]) ELSE acc)

FalloffTable == [d2 \in 0..(2 * (radius + 1) * (radius + 1)) |-> ExpNeg(d2, 1, Scale)]

\* mutant of Falloff: the falloff measured from the rim instead of the centre
FalloffFromRim(d2) ==
  FalloffTable[IF d2 <= radius * radius THEN radius * radius - d2 ELSE 0]

\* falloff = Math.exp(-(distance*distance) / (2 * (radius/3) * (radius/3)))
Falloff(d2) == FalloffTable[d2]

(***************************************************************************)
(* HeatmapRenderer                                                         *)
(***************************************************************************)
\* mutant of initializeHeatmapData: width rows of height cells
initializeTransposed(w, h) == [y \in 0..(w - 1) |-> [x \in 0..(h - 1) |-> 0]]

\* Array(height).fill(null).map(() => Array(width).fill(0))
initializeHeatmapData(w, h) == [y \in 0..(h - 1) |-> [x \in 0..(w - 1) |-> 0]]

\* mutant of PassesConfidence: the confidence test left out
PassesNonNull(gp) == gp # NULL

\* if (!gazePoint || gazePoint.confidence < 0.3) return
PassesConfidence(gp) == gp # NULL /\ ~(gp.confidence < ConfThreshold)

\* mutant of MathFloor: Math.round instead of Math.floor
MathRound(v2) == (v2 + 1) \div 2

\* Math.floor of a coordinate given in half pixels
MathFloor(v2) == v2 \div 2

\* if (x < 0 || x >= this.width || y < 0 || y >= this.height) return
InBounds(x, y, w, h) == ~(x < 0 \/ x >= w \/ y < 0 \/ y >= h)

\* mutant of InKernel: distance < this.radius instead of <=
InKernelStrict(dx, dy) ==
  /\ dx >= -radius /\ dx <= radius
  /\ dy >= -radius /\ dy <= radius
  /\ dx * dx + dy * dy < radius * radius

\* the dx, dy loops and  distance <= this.radius,  distance = sqrt(dx*dx+dy*dy)
InKernel(dx, dy) ==
  /\ dx >= -radius /\ dx <= radius
  /\ dy >= -radius /\ dy <= radius
  /\ dx * dx + dy * dy <= radius * radius

\* addedIntensity = intensity * falloff,  intensity = confidence * 2
AddedIntensity(confidence, d2) == (confidence * 2 * Falloff(d2)) \div 100

\* mutant of Splat: the cap at maxIntensity left out
SplatUncapped(cell, added) == cell + added

\* mutant of Splat: the cell overwritten instead of accumulated
SplatOverwrite(cell, added) == Min(MaxCell, added)

\* Math.min(this.maxIntensity, this.heatmapData[py][px] + addedIntensity)
Splat(cell, added) == Min(MaxCell, cell + added)

addGazePoint(data, w, h, gp) ==
  IF ~PassesConfidence(gp) THEN data
  ELSE LET x == MathFloor(gp.x2)
           y == MathFloor(gp.y2)
       IN IF ~InBounds(x, y, w, h) THEN data
          ELSE [py \in DOMAIN data |-> [px \in DOMAIN data[py] |->
                  IF /\ px >= 0 /\ px < w /\ py >= 0 /\ py < h
                     /\ InKernel(px - x, py - y)
                  THEN Splat(data[py][px],
                             AddedIntensity(gp.confidence,
                                (px - x) * (px - x) + (py - y) * (py - y)))
                  ELSE data[py][px]]]

\* a canvas with nothing drawn on it (every pixel transparent)
Blank == [drawn |-> FALSE, field |-> initializeHeatmapData(0, 0), maxValue |-> 0]

\* render(): let maxValue = 0; maxValue = Math.max(maxValue, heatmapData[y][x])
CellValues(data) == UNION {{data[y][x] : x \in DOMAIN data[y]} : y \in DOMAIN data}

\* mutant of MaxValue: normalization against maxIntensity, an absolute scale
MaxValueAbsolute(data) == IF CellValues(data) \subseteq {0} THEN 0 ELSE MaxCell

MaxValue(data) ==
  LET S == CellValues(data) \cup {0}
  IN CHOOSE u \in S : \A t \in S : u >= t

\* value = this.heatmapData[y][x] / maxValue, in units of 1/Scale, for
\* 0 <= cell <= maxValue and maxValue > 0 (long division, digit by digit)
RECURSIVE DivFix(_, _, _, _)
DivFix(r, d, unit, acc) ==
  IF unit = 1 THEN acc
  ELSE DivFix((r * 10) % d, d, unit \div 10, acc * 10 + ((r * 10) \div d))

Normalize(cell, maxValue) == DivFix(cell % maxValue, maxValue, Scale, cell \div maxValue)

\* colorStops: value in units of 1/Scale, color <<R, G, B, alpha in tenths>>
colorStops ==
  << [value |-> 0,                   color |-> <<0, 0, 0, 0>>],
     [value |-> (2 * Scale) \div 10, color |-> <<0, 0, 255, 3>>],
     [value |-> (4 * Scale) \div 10, color |-> <<0, 255, 0, 5>>],
     [value |-> (6 * Scale) \div 10, color |-> <<255, 255, 0, 7>>],
     [value |-> (8 * Scale) \div 10, color |-> <<255, 165, 0, 8>>],
     [value |-> Scale,               color |-> <<255, 0, 0, 9>>] >>

\* Math.round(num / den) for num >= 0, den > 0
MathRoundDiv(num, den) == (2 * num + den) \div (2 * den)

\* Math.round(current.color[ch] + (next.color[ch] - current.color[ch]) * t)
\* with t = tn / td; scale is 1 for R, G, B and 255 (over tenths) for alpha
Interpolate(c0, c1, tn, td, scale, tenths) ==
  MathRoundDiv(scale * (c0 * td + (c1 - c0) * tn), tenths * td)

\* mutant of getHeatmapColor: the color of the stop below, not interpolated
getHeatmapColorStepped(value) ==
  LET below == {i \in 1..Len(colorStops) : colorStops[i].value <= value}
      i == CHOOSE j \in below : \A k \in below : j >= k
      c == colorStops[i].color
  IN <<c[1], c[2], c[3], MathRoundDiv(c[4] * 255, 10)>>

\* getHeatmapColor(value): <<R, G, B, A>>, each 0..255
getHeatmapColor(value) ==
  IF value = 0 THEN <<0, 0, 0, 0>>
  ELSE LET found == {i \in 1..(Len(colorStops) - 1) :
                       /\ value >= colorStops[i].value
                       /\ value <= colorStops[i + 1].value}
       IN IF found = {}
          THEN LET lastColor == colorStops[Len(colorStops)].color
               IN <<lastColor[1], lastColor[2], lastColor[3],
                    MathRoundDiv(lastColor[4] * 255, 10)>>
          ELSE LET i == CHOOSE j \in found : \A k \in found : j <= k
                   current == colorStops[i]
                   next == colorStops[i + 1]
                   tn == value - current.value
                   td == next.value - current.value
               IN <<Interpolate(current.color[1], next.color[1], tn, td, 1, 1),
                    Interpolate(current.color[2], next.color[2], tn, td, 1, 1),
                    Interpolate(current.color[3], next.color[3], tn, td, 1, 1),
                    Interpolate(current.color[4], next.color[4], tn, td, 255, 10)>>

\* the normalized value render() passes to getHeatmapColor for pixel (x, y)
\* of a drawn image
PixelValue(img, x, y) == Normalize(img.field[y][x], img.maxValue)

\* the RGBA that render() wrote for pixel (x, y): data[index .. index + 3]
PixelColor(img, x, y) ==
  IF ~img.drawn THEN <<0, 0, 0, 0>>
  ELSE getHeatmapColor(PixelValue(img, x, y))

\* what render() leaves on the canvas: nothing when hidden; a cleared canvas
\* when maxValue === 0; otherwise the field normalised by maxValue
renderImage(img, data, visible) ==
  IF ~visible THEN img
  ELSE IF MaxValue(data) = 0 THEN Blank
  ELSE [drawn |-> TRUE, field |-> data, maxValue |-> MaxValue(data)]

\* constructor(canvas)
construct ==
  /\ width' = canvas.width
  /\ height' = canvas.height
  /\ heatmapData' = initializeHeatmapData(canvas.width, canvas.height)
  /\ isVisible' = TRUE
  /\ UNCHANGED canvas

\* mutant of clear: the canvas wiped, the field left as it is
clearCanvasOnly ==
  /\ canvas' = [canvas EXCEPT !.image = Blank]
  /\ UNCHANGED <<heatmapData, width, height, isVisible>>

\* clear(): initializeHeatmapData() re-reads the canvas size, then clearRect
clear ==
  /\ width' = canvas.width
  /\ height' = canvas.height
  /\ heatmapData' = initializeHeatmapData(canvas.width, canvas.height)
  /\ canvas' = [canvas EXCEPT !.image = Blank]
  /\ UNCHANGED isVisible

\* mutant of setVisible: the flag set, the canvas not cleared
setVisibleFlagOnly(visible) ==
  /\ isVisible' = visible
  /\ UNCHANGED <<heatmapData, width, height, canvas>>

\* setVisible(visible)
setVisible(visible) ==
  /\ isVisible' = visible
  /\ canvas' = IF ~visible THEN [canvas EXCEPT !.image = Blank] ELSE canvas
  /\ UNCHANGED <<heatmapData, width, height>>

\* mutant of resize: the sizes set, the field not yet reallocated
resizeWithoutField ==
  /\ width' = innerWidth'
  /\ height' = innerHeight'
  /\ canvas' = [width |-> innerWidth', height |-> innerHeight', image |-> Blank]
  /\ UNCHANGED <<heatmapData, isVisible>>

\* mutant of resize: the old intensities copied into the new field
resizeKeepingField ==
  /\ width' = innerWidth'
  /\ height' = innerHeight'
  /\ canvas' = [width |-> innerWidth', height |-> innerHeight', image |-> Blank]
  /\ heatmapData' =
        [y \in 0..(innerHeight' - 1) |-> [x \in 0..(innerWidth' - 1) |->
           IF y < height /\ x < width THEN heatmapData[y][x] ELSE 0]]
  /\ UNCHANGED isVisible

\* resize(): takes the window size; assigning canvas.width resets the canvas
resize ==
  /\ width' = innerWidth'
  /\ height' = innerHeight'
  /\ canvas' = [width |-> innerWidth', height |-> innerHeight', image |-> Blank]
  /\ heatmapData' = initializeHeatmapData(innerWidth', innerHeight')
  /\ UNCHANGED isVisible

\* render() ends with an exception when it is visible and the field has no
\* cell: ctx.createImageData(width, height) raises IndexSizeError for a zero
\* width or height (after clearRect, before the maxValue scan)
renderThrows(w, h, visible) == visible /\ (w = 0 \/ h = 0)

\* render()
render ==
  /\ canvas' = [canvas EXCEPT !.image = renderImage(@, heatmapData', isVisible)]
  /\ UNCHANGED <<width, height, isVisible>>

(***************************************************************************)
(* Inputs                                                                  *)
(***************************************************************************)
GazePoint(x2, y2, c, t) ==
  [null |-> FALSE, x2 |-> x2, y2 |-> y2, confidence |-> c, timestamp |-> t]

\* coordinates (half pixels) around the edges of both viewports
X2s == {-1, 0, 2 * SmallW - 1, 2 * FieldW - 1, 2 * FieldW}
Y2s == {-1, 0, 2 * FieldH - 1, 2 * FieldH}
Confidences == {29, 30, 100}

Samples == {GazePoint(x2, y2, c, 0) : x2 \in X2s, y2 \in Y2s, c \in Confidences}

\* observation of a call: the operation, the gaze point passed to
\* addGazePoint in it (NULL when none was), whether render() was called,
\* whether the call ended with an exception, and whether the field held
\* intensity when the call began
Call(op, gp) == [op |-> op, gp |-> gp, render |-> op = "render",
                 threw |-> FALSE, nonzero |-> FALSE]
Tick(gp, rendered) == [op |-> "trackingLoop", gp |-> gp, render |-> rendered,
                       threw |-> FALSE, nonzero |-> FALSE]

\* a call observed together with the state of the field it began on
CallOnField(op) ==
  [Call(op, NULL) EXCEPT
     !.nonzero = \E y \in DOMAIN heatmapData :
                    \E x \in DOMAIN heatmapData[y] : heatmapData[y][x] > 0]

(***************************************************************************)
(* State of the parts a driver of the HeatmapRenderer alone does not use   *)
(***************************************************************************)
\* new EyeTracker(videoElement): the fields' initializers.  scheduled is the
\* browser's side of animationFrameId: a detect callback is queued.
\* videoElement names the <video> by the number of the rendering of the main
\* tree that created it (0: not given yet)
NewTracker ==
  [faceLandmarker |-> FALSE, stream |-> FALSE, isInitialized |-> FALSE,
   detectionActive |-> FALSE, animationFrameId |-> FALSE,
   scheduled |-> FALSE, stage |-> "new", version |-> "current",
   videoElement |-> 0,
   wait |-> [promise |-> "none", attempts |-> 0, pollTimer |-> FALSE,
             pollDue |-> FALSE, timeout |-> FALSE, elapsed |-> 0]]

\* a <video> element without a stream
NoVideo == [readyState |-> 0, videoWidth |-> 0, videoHeight |-> 0]

\* nothing observed yet
NoLog ==
  [detect |-> "none", runs |-> 0, stages |-> <<>>,
   rejection |-> [isError |-> FALSE, message |-> ""], permission |-> "none",
   loads |-> {}, cpu |-> FALSE, gpu |-> FALSE, tried |-> <<>>, vision |-> 0,
   configs |-> <<>>, retried |-> FALSE, setError |-> "",
   exported |-> [empty |-> TRUE, pixels |-> <<>>], after |-> "none",
   face |-> [present |-> FALSE,
             left |-> [dx |-> 0, dy |-> 0, w |-> 0, h |-> 0],
             right |-> [dx |-> 0, dy |-> 0, w |-> 0, h |-> 0]]]

\* a browser in which every stage of initialize() succeeds, and whose
\* localStorage has no eyeTrackingDebug item.  elements counts the times the
\* main tree (<video> and the two <canvas>) has been created in the document;
\* eyeTrackers are the EyeTrackers that initializeTracking() constructed
\* before the latest one
WorkingBrowser ==
  [healthy |-> TRUE, eyeTrackingDebug |-> "unset", elements |-> 1,
   eyeTrackers |-> <<>>]

\* the component's state and refs after mount: the effect's timer is pending
ComponentUnset ==
  /\ trackerReady = FALSE
  /\ isInitializing = FALSE
  /\ mountEffect = [retryCount |-> 0, timer |-> TRUE, awaiting |-> FALSE,
                    attempts |-> 0, cleanedUp |-> FALSE, heatmapCanvas |-> 0]
  /\ isInitialized = FALSE /\ isTracking = FALSE /\ showHeatmap = TRUE
  /\ error = FALSE /\ rendererRef = FALSE /\ trackerRef = FALSE
  /\ frames = <<>> /\ animationFrameRef = 0 /\ nextFrameId = 1
  /\ currentGaze = NULL
  /\ fpsCounter = [frames |-> 0, lastTime |-> 0] /\ fps = 0
  /\ debugMode = FALSE /\ now = 0

ComponentIdle ==
  /\ ComponentUnset
  /\ tracker = NewTracker /\ video = NoVideo /\ log = NoLog
  /\ browser = WorkingBrowser

(***************************************************************************)
(* SpecRenderer: a HeatmapRenderer driven through its public methods       *)
(***************************************************************************)
RendererConstructed ==
  /\ \E vp \in Viewports, cv \in Viewports :
        /\ innerWidth = vp[1] /\ innerHeight = vp[2]
        /\ canvas = [width |-> cv[1], height |-> cv[2], image |-> Blank]
        /\ width = cv[1] /\ height = cv[2]
        /\ heatmapData = initializeHeatmapData(cv[1], cv[2])
  /\ isVisible = TRUE
  /\ ComponentIdle
  /\ lastCall = Call("constructor", NULL)
  /\ calls = 0

RendererInit ==
  /\ RendererConstructed
  /\ lastGazePoint = NULL

\* calls counts the addGazePoint calls up to MaxIngest
CountCall(n) == IF n < MaxIngest THEN n + 1 ELSE n

CallAddGazePoint(gp) ==
  /\ calls < MaxIngest
  /\ heatmapData' = addGazePoint(heatmapData, width, height, gp)
  /\ calls' = CountCall(calls)
  /\ lastCall' = Call("addGazePoint", gp)
  /\ UNCHANGED <<width, height, isVisible, canvas, windowVars, trackerVars,
                 componentVars>>

CallClear ==
  /\ clear
  /\ lastCall' = CallOnField("clear")
  /\ UNCHANGED <<calls, windowVars, trackerVars, componentVars>>

CallResize(vp) ==
  /\ innerWidth' = vp[1] /\ innerHeight' = vp[2]
  /\ resize
  /\ lastCall' = CallOnField("resize")
  /\ UNCHANGED <<calls, trackerVars, componentVars>>

CallSetVisible(visible) ==
  /\ setVisible(visible)
  /\ lastCall' = Call("setVisible", NULL)
  /\ UNCHANGED <<calls, windowVars, trackerVars, componentVars>>

\* mutant of CallRender: the field normalized in place while it is drawn
CallRenderNormalizing ==
  /\ heatmapData' =
        IF isVisible /\ MaxValue(heatmapData) > 0
        THEN [y \in DOMAIN heatmapData |-> [x \in DOMAIN heatmapData[y] |->
                Normalize(heatmapData[y][x], MaxValue(heatmapData))]]
        ELSE heatmapData
  /\ render
  /\ lastCall' = [Call("render", NULL) EXCEPT
                    !.threw = renderThrows(width, height, isVisible)]
  /\ UNCHANGED <<calls, windowVars, trackerVars, componentVars>>

CallRender ==
  /\ heatmapData' = heatmapData
  /\ render
  /\ lastCall' = [Call("render", NULL) EXCEPT
                    !.threw = renderThrows(width, height, isVisible)]
  /\ UNCHANGED <<calls, windowVars, trackerVars, componentVars>>

RendererNext ==
  \/ \E gp \in Samples \cup {NULL} : CallAddGazePoint(gp)
  \/ CallClear
  \/ \E vp \in Viewports : CallResize(vp)
  \/ \E visible \in BOOLEAN : CallSetVisible(visible)
  \/ CallRender

SpecRenderer == RendererInit /\ [][RendererNext]_vars

(***************************************************************************)
(* SpecRepeat: the renderer is fed the tracker's last gaze point again and *)
(* again, as a tracking loop does while the detector produces no new       *)
(* sample (getGazePoint() returns lastGazePoint without consuming it).     *)
(* SpecSaturate adds clear() and resize() to that.                         *)
(***************************************************************************)
RepeatSamples ==
  {GazePoint(0, 0, 100, 0), GazePoint(2 * FieldW - 1, 2 * FieldH - 1, 100, 0)}

RepeatInit ==
  /\ RendererConstructed
  /\ canvas.width = innerWidth /\ canvas.height = innerHeight
  /\ lastGazePoint \in RepeatSamples

\* one more addGazePoint(getGazePoint())
RepeatIngest ==
  /\ heatmapData' = addGazePoint(heatmapData, width, height, lastGazePoint)
  /\ calls' = CountCall(calls)
  /\ lastCall' = Call("addGazePoint", lastGazePoint)
  /\ UNCHANGED <<width, height, isVisible, canvas, windowVars, trackerVars,
                 componentVars>>

SpecRepeat == RepeatInit /\ [][RepeatIngest]_vars /\ WF_vars(RepeatIngest)

SaturateNext ==
  \/ RepeatIngest
  \/ CallClear
  \/ \E vp \in Viewports : CallResize(vp)

SpecSaturate == RepeatInit /\ [][SaturateNext]_vars

(***************************************************************************)
(* SpecRamp: a renderer over the large viewport is fed confident samples   *)
(* at its two ends and in its middle, cleared, hidden, shown and rendered. *)
(***************************************************************************)
RampSamples ==
  {GazePoint(x2, 0, c, 0) : x2 \in {0, FieldW, 2 * FieldW - 1}, c \in {30, 100}}

RampInit ==
  /\ RendererConstructed
  /\ canvas.width = FieldW /\ canvas.height = FieldH
  /\ innerWidth = FieldW /\ innerHeight = FieldH
  /\ lastGazePoint = NULL

RampNext ==
  \/ \E gp \in RampSamples : CallAddGazePoint(gp)
  \/ CallClear
  \/ \E visible \in BOOLEAN : CallSetVisible(visible)
  \/ CallRender

SpecRamp == RampInit /\ [][RampNext]_vars

(***************************************************************************)
(* SpecLifecycle: a HeatmapRenderer over small canvases, a canvas or a     *)
(* window without area included (canvas.width = 0 is a legal canvas, and   *)
(* initializeTracking tests for it), driven through its public methods.    *)
(***************************************************************************)
LifecycleViewports ==
  {<<SmallW, SmallH>>, <<FieldH, SmallW>>, <<0, SmallH>>, <<SmallW, 0>>}

LifecycleSamples ==
  {GazePoint(x2, y2, c, 0) :
     x2 \in {0, 2 * SmallW - 1}, y2 \in {0, 2 * SmallH}, c \in {29, 100}}

\* new HeatmapRenderer(canvas)
LifecycleInit ==
  /\ \E vp \in LifecycleViewports, cv \in LifecycleViewports :
        /\ innerWidth = vp[1] /\ innerHeight = vp[2]
        /\ canvas = [width |-> cv[1], height |-> cv[2], image |-> Blank]
        /\ width = cv[1] /\ height = cv[2]
        /\ heatmapData = initializeHeatmapData(cv[1], cv[2])
  /\ isVisible = TRUE
  /\ ComponentIdle
  /\ lastGazePoint = NULL
  /\ lastCall = Call("constructor", NULL)
  /\ calls = 0

LifecycleNext ==
  \/ \E gp \in LifecycleSamples \cup {NULL} : CallAddGazePoint(gp)
  \/ CallClear
  \/ \E vp \in LifecycleViewports : CallResize(vp)
  \/ \E visible \in BOOLEAN : CallSetVisible(visible)
  \/ CallRender

SpecLifecycle == LifecycleInit /\ [][LifecycleNext]_vars

(***************************************************************************)
(* SpecExport: the HeatmapRenderer with exportImage()                      *)
(***************************************************************************)
\* canvas.toDataURL('image/png'): the canvas's pixels, row by row; a canvas
\* without area encodes as the empty image "data:,"
toDataURL(cv) ==
  IF cv.width = 0 \/ cv.height = 0
  THEN [empty |-> TRUE, pixels |-> <<>>]
  ELSE [empty |-> FALSE,
        pixels |-> [y \in 1..cv.height |->
                      [x \in 1..cv.width |-> PixelColor(cv.image, x - 1, y - 1)]]]

\* exportImage(): return this.canvas.toDataURL('image/png')
exportImage == toDataURL(canvas)

\* mutant of CallExportImage: the export draws the field before encoding it
CallExportImageDrawing ==
  /\ canvas' = [canvas EXCEPT !.image = renderImage(@, heatmapData, TRUE)]
  /\ log' = [log EXCEPT !.exported = toDataURL(canvas'), !.after = lastCall.op]
  /\ lastCall' = Call("exportImage", NULL)
  /\ UNCHANGED <<heatmapData, width, height, isVisible, calls, windowVars,
                 lastGazePoint, trackerReady, tracker, video, componentVars>>

CallExportImage ==
  /\ log' = [log EXCEPT !.exported = exportImage, !.after = lastCall.op]
  /\ lastCall' = Call("exportImage", NULL)
  /\ UNCHANGED <<rendererVars, calls, windowVars, lastGazePoint, trackerReady,
                 tracker, video, componentVars>>

ExportNext ==
  \/ \E gp \in LifecycleSamples \cup {NULL} : CallAddGazePoint(gp)
  \/ CallClear
  \/ \E vp \in LifecycleViewports : CallResize(vp)
  \/ \E visible \in BOOLEAN : CallSetVisible(visible)
  \/ CallRender
  \/ CallExportImage

SpecExport == LifecycleInit /\ [][ExportNext]_vars

(***************************************************************************)
(* EyeTracker, as far as the component reads it                            *)
(***************************************************************************)
\* getGazePoint(): return this.lastGazePoint
getGazePoint == lastGazePoint

\* gaze points calculateGazePoint can emit for a w x h window at time t:
\* x, y clamped to [0, w] and [0, h], confidence clamped to [0.1, 1]
TrackerOutputs(w, t) ==
  {GazePoint(x2, 0, c, t) : x2 \in {0, 2 * w}, c \in {10, 100}}

\* onResults(results) with a face: this.lastGazePoint = gazePoint
OnResultsFace(gp) ==
  /\ trackerReady
  /\ lastGazePoint' = gp
  /\ lastCall' = Call("onResults", NULL)
  /\ UNCHANGED <<rendererVars, windowVars, trackerReady, internalVars,
                 componentVars, calls>>

\* onResults(results) without a face: a gaze point older than 500 ms is dropped
OnResultsNoFace ==
  /\ trackerReady
  /\ lastGazePoint' =
        IF lastGazePoint # NULL /\ now - lastGazePoint.timestamp > 500
        THEN NULL ELSE lastGazePoint
  /\ lastCall' = Call("onResults", NULL)
  /\ UNCHANGED <<rendererVars, windowVars, trackerReady, internalVars,
                 componentVars, calls>>

(***************************************************************************)
(* EyeTrackingHeatmap component                                            *)
(***************************************************************************)
\* the values of the render a callback was created in (its closure)
Closure == [isTracking |-> isTracking, showHeatmap |-> showHeatmap,
            debugMode |-> debugMode]

\* requestAnimationFrame(trackingLoop) with the trackingLoop of closure c
Request(queue, id, c) == Append(queue, [id |-> id, closure |-> c])

\* cancelAnimationFrame(id)
Cancel(queue, id) == SelectSeq(queue, LAMBDA f : f.id # id)

\* mutant of LoopConditionsMet: the isTracking test left out
LoopConditionsRefsOnly(c) == trackerRef /\ rendererRef

\* !( !isTracking || !eyeTrackerRef.current || !heatmapRendererRef.current )
LoopConditionsMet(c) == ~(~c.isTracking \/ ~trackerRef \/ ~rendererRef)

\* updateFPS() of closure c: the counter after the call, and the state it sets
FpsWindowOver == now - fpsCounter.lastTime >= 1000

updateFPS(c) ==
  /\ fpsCounter' = IF FpsWindowOver THEN [frames |-> 0, lastTime |-> now]
                    ELSE [fpsCounter EXCEPT !.frames = @ + 1]
  /\ fps' = IF FpsWindowOver THEN fpsCounter.frames + 1 ELSE fps
  /\ debugMode' = IF /\ FpsWindowOver /\ fpsCounter.frames + 1 = 0
                      /\ c.isTracking /\ ~c.debugMode
                   THEN TRUE ELSE debugMode
  /\ browser' = IF /\ FpsWindowOver /\ fpsCounter.frames + 1 = 0
                    /\ c.isTracking /\ ~c.debugMode
                 THEN [browser EXCEPT !.eyeTrackingDebug = "true"]
                 ELSE browser

\* the initial state: the component is mounted, its effects have run
\* (handleResize() sized the canvas to the window), nothing is initialized
Init ==
  /\ \E vp \in Viewports :
        /\ innerWidth = vp[1] /\ innerHeight = vp[2]
        /\ canvas = [width |-> vp[1], height |-> vp[2], image |-> Blank]
  /\ width = 0 /\ height = 0
  /\ heatmapData = initializeHeatmapData(0, 0)
  /\ isVisible = TRUE
  /\ lastGazePoint = NULL
  /\ ComponentIdle
  /\ lastCall = Call("mount", NULL)
  /\ calls = 0

\* initializeTracking(), every stage succeeding: the EyeTracker is created
\* and initialized, the HeatmapRenderer is constructed over the canvas
InitializeTracking ==
  /\ ~isInitialized /\ ~error
  /\ mountEffect.timer
  /\ mountEffect' = [mountEffect EXCEPT !.timer = FALSE]
  /\ UNCHANGED <<isInitializing, browser>>
  /\ trackerRef' = TRUE /\ trackerReady' = TRUE
  /\ lastGazePoint' = NULL
  /\ construct
  /\ rendererRef' = TRUE
  /\ isInitialized' = TRUE
  /\ error' = FALSE
  /\ lastCall' = Call("initializeTracking", NULL)
  /\ UNCHANGED <<windowVars, internalVars, isTracking, showHeatmap, frames,
                 animationFrameRef, nextFrameId, currentGaze, fpsCounter,
                 fps, debugMode, now, calls>>

\* the controls are rendered and enabled
ControlsEnabled == isInitialized /\ ~error

\* toggleTracking()
toggleTracking ==
  /\ ControlsEnabled
  /\ IF isTracking
     THEN /\ isTracking' = FALSE
          /\ frames' = IF animationFrameRef # 0
                        THEN Cancel(frames, animationFrameRef) ELSE frames
          /\ animationFrameRef' = 0
          /\ UNCHANGED <<error, nextFrameId>>
     ELSE IF ~trackerRef \/ ~rendererRef \/ ~trackerReady
     THEN /\ error' = TRUE
          /\ UNCHANGED <<isTracking, frames, animationFrameRef, nextFrameId>>
     ELSE /\ nextFrameId <= MaxFrames
          /\ isTracking' = TRUE
          /\ frames' = Request(frames, nextFrameId, Closure)
          /\ nextFrameId' = nextFrameId + 1
          /\ UNCHANGED <<error, animationFrameRef>>
  /\ lastCall' = Call("toggleTracking", NULL)
  /\ UNCHANGED <<rendererVars, windowVars, trackerVars, isInitialized,
                 showHeatmap, rendererRef, trackerRef, currentGaze,
                 fpsCounter, fps, debugMode, mountVars, now, calls>>

\* trackingLoop(): the callback at the head of the animation frame queue runs
trackingLoop ==
  /\ frames # <<>>
  /\ LET f == Head(frames)
         c == f.closure
         gp == getGazePoint
         ingest == LoopConditionsMet(c) /\ gp # NULL
         draw == ingest /\ c.showHeatmap
     IN /\ c.isTracking => nextFrameId <= MaxFrames
        /\ frames' = IF c.isTracking
                      THEN Request(Tail(frames), nextFrameId, c)
                      ELSE Tail(frames)
        /\ animationFrameRef' = IF c.isTracking THEN nextFrameId
                                 ELSE animationFrameRef
        /\ nextFrameId' = IF c.isTracking THEN nextFrameId + 1 ELSE nextFrameId
        /\ currentGaze' = IF ingest THEN gp ELSE currentGaze
        /\ heatmapData' = IF ingest
                           THEN addGazePoint(heatmapData, width, height, gp)
                           ELSE heatmapData
        /\ calls' = IF ingest THEN CountCall(calls) ELSE calls
        /\ IF draw THEN render
           ELSE UNCHANGED <<width, height, isVisible, canvas>>
        /\ updateFPS(c)
        /\ lastCall' = Tick(IF ingest THEN gp ELSE NULL, draw)
  /\ UNCHANGED <<windowVars, trackerVars, isInitialized, isTracking,
                 showHeatmap, error, rendererRef, trackerRef, isInitializing,
                 mountEffect, now>>

\* clearHeatmap()
clearHeatmap ==
  /\ ControlsEnabled
  /\ IF rendererRef THEN clear ELSE UNCHANGED rendererVars
  /\ lastCall' = Call("clear", NULL)
  /\ UNCHANGED <<windowVars, trackerVars, componentVars, calls>>

\* toggleHeatmap()
toggleHeatmap ==
  /\ ControlsEnabled
  /\ showHeatmap' = ~showHeatmap
  /\ IF rendererRef THEN setVisible(~showHeatmap) ELSE UNCHANGED rendererVars
  /\ lastCall' = Call("setVisible", NULL)
  /\ UNCHANGED <<windowVars, trackerVars, isInitialized, isTracking, error,
                 rendererRef, trackerRef, frames, animationFrameRef,
                 nextFrameId, currentGaze, fpsCounter, fps, debugMode,
                 mountVars, now, calls>>

\* handleResize(), on the window's resize event
handleResize(vp) ==
  /\ innerWidth' = vp[1] /\ innerHeight' = vp[2]
  /\ IF rendererRef THEN resize
     ELSE /\ canvas' = [width |-> vp[1], height |-> vp[2], image |-> Blank]
          /\ UNCHANGED <<heatmapData, width, height, isVisible>>
  /\ lastCall' = Call("resize", NULL)
  /\ UNCHANGED <<trackerVars, componentVars, calls>>

\* time passes
AdvanceClock ==
  /\ now < MaxClock
  /\ now' = now + 250
  /\ UNCHANGED <<rendererVars, windowVars, trackerVars, isInitialized,
                 isTracking, showHeatmap, error, rendererRef, trackerRef,
                 frames, animationFrameRef, nextFrameId, currentGaze,
                 fpsCounter, fps, debugMode, mountVars, lastCall, calls>>

Next ==
  \/ InitializeTracking
  \/ toggleTracking
  \/ trackingLoop
  \/ clearHeatmap
  \/ toggleHeatmap
  \/ \E vp \in Viewports : handleResize(vp)
  \/ \E gp \in TrackerOutputs(innerWidth, now) : OnResultsFace(gp)
  \/ OnResultsNoFace
  \/ AdvanceClock

Spec == Init /\ [][Next]_vars

\* the browser runs a requested animation frame, and time passes
FairSpec == Spec /\ WF_vars(trackingLoop) /\ WF_vars(AdvanceClock)

(***************************************************************************)
(* EyeTracker: initialize(), the detection loop, dispose()                 *)
(***************************************************************************)
\* isReady(): this.isInitialized && this.detectionActive
isReady(t) == t.isInitialized /\ t.detectionActive

\* a thrown value: an Error with a message, or something that is no Error
Error(message) == [isError |-> TRUE, message |-> message]
NoError == [isError |-> FALSE, message |-> ""]

\* the stages of initialize(), in the order it awaits them
Stages == <<"checkBrowserCompatibility", "checkNetworkConnectivity",
            "requestCameraPermissions", "initializeMediaPipe",
            "initializeCamera", "startDetectionLoop">>

\* checkBrowserCompatibility(): missing is the set of features the browser
\* lacks; the checks are made in this order
checkBrowserCompatibility(missing) ==
  IF "getUserMedia" \in missing
  THEN Error("Your browser does not support camera access")
  ELSE IF "isSecureContext" \in missing
  THEN Error("Camera access requires a secure connection (HTTPS)")
  ELSE IF "WebAssembly" \in missing
  THEN Error("Your browser does not support WebAssembly")
  ELSE IF "Canvas2D" \in missing
  THEN Error("Your browser does not support Canvas 2D context")
  ELSE NoError

\* checkNetworkConnectivity(): fetch resolves ok, resolves not ok, or rejects
checkNetworkConnectivity(response) ==
  IF response = "ok" THEN NoError
  ELSE Error("Network connectivity issue")

\* requestCameraPermissions(): state is what navigator.permissions.query
\* reports ("absent": no permissions API, "rejects": the query fails), media
\* is how the test getUserMedia call ends.  The Error thrown for the state
\* 'denied' is thrown inside the inner try and caught by its catch, which
\* only warns: execution continues with getUserMedia
\* (the browser refuses getUserMedia when the permission is denied)
PermissionCases ==
  {pc \in {"absent", "granted", "prompt", "denied", "rejects"}
           \X {"ok", "NotAllowedError", "NotFoundError", "NotReadableError",
               "OverconstrainedError", "OtherError", "nonError"} :
      pc[1] = "denied" => pc[2] = "NotAllowedError"}

mediaError(media) ==
  CASE media = "ok" -> NoError
    [] media = "NotAllowedError" -> Error("Camera access was denied")
    [] media = "NotFoundError" -> Error("No camera found")
    [] media = "NotReadableError" -> Error("Camera is already in use")
    [] media = "OverconstrainedError" ->
         Error("Camera constraints could not be satisfied")
    [] media = "OtherError" -> Error("Camera access failed")
    [] OTHER -> Error("Failed to access camera")

requestCameraPermissions(state, media) ==
  LET queried == IF state = "denied"
                 THEN Error("Camera permission has been denied")
                 ELSE NoError
      \* catch (permError) { console.warn(...) }: queried is dropped
  IN  mediaError(media)

\* initializeMediaPipe(): loads is the set of loading strategies (1..4) that
\* would succeed, cpu and gpu tell whether createFromOptions succeeds with
\* that delegate, text is the kind of message the library's error carries
RECURSIVE tryStrategies(_, _, _)
\* for (const strategy of loadingStrategies): the strategies tried from i on
tryStrategies(i, loads, tried) ==
  IF i > 4 THEN [vision |-> 0, tried |-> tried]
  ELSE IF i \in loads THEN [vision |-> i, tried |-> Append(tried, i)]
  ELSE tryStrategies(i + 1, loads, Append(tried, i))

\* mutant of tryConfigs: the GPU configuration is tried first
tryConfigsGpuFirst(cpu, gpu) ==
  IF gpu THEN [created |-> TRUE, configs |-> <<"GPU">>]
  ELSE IF cpu THEN [created |-> TRUE, configs |-> <<"GPU", "CPU">>]
  ELSE [created |-> FALSE, configs |-> <<"GPU", "CPU">>]

\* for (let i = 0; i < configs.length; i++): CPU, then GPU
tryConfigs(cpu, gpu) ==
  IF cpu THEN [created |-> TRUE, configs |-> <<"CPU">>]
  ELSE IF gpu THEN [created |-> TRUE, configs |-> <<"CPU", "GPU">>]
  ELSE [created |-> FALSE, configs |-> <<"CPU", "GPU">>]

libraryError(text) ==
  CASE text = "model" -> Error("Failed to load face detection model")
    [] text = "gpu" -> Error("GPU acceleration failed, trying CPU fallback")
    [] OTHER -> Error("MediaPipe error")

initializeMediaPipe(loads, cpu, gpu, text) ==
  LET wasm == tryStrategies(1, loads, <<>>)
      made == IF wasm.vision = 0 THEN [created |-> FALSE, configs |-> <<>>]
              ELSE tryConfigs(cpu, gpu)
  IN  [faceLandmarker |-> made.created,
       tried |-> wasm.tried, vision |-> wasm.vision, configs |-> made.configs,
       error |-> IF wasm.vision = 0 THEN Error("Failed to load WASM files")
                 ELSE IF made.created THEN NoError
                 ELSE libraryError(text)]

\* the video element once waitForVideoReady() has resolved
ReadyVideo == [readyState |-> 4, videoWidth |-> 640, videoHeight |-> 480]

\* states the video element can be in while a stream is attached
VideoStates ==
  {[readyState |-> r, videoWidth |-> w, videoHeight |-> h] :
      r \in {1, 2, 4}, w \in {0, 640}, h \in {0, 480}}

\* initializeCamera(): media is how getUserMedia ends, ready tells whether
\* waitForVideoReady() resolves.  On failure the stream is stopped and dropped
initializeCamera(media, ready) ==
  IF media # "ok" THEN [stream |-> FALSE, error |-> Error("getUserMedia")]
  ELSE IF ~ready THEN [stream |-> FALSE, error |-> Error("Video failed to load")]
  ELSE [stream |-> TRUE, error |-> NoError]

\* mutant of detect: the next frame is requested only when the conditions
\* of the run are met
detectCheckingFirst(t) ==
  [t EXCEPT !.animationFrameId =
               IF t.detectionActive /\ t.faceLandmarker /\ t.isInitialized
               THEN TRUE ELSE @,
            !.scheduled =
               t.detectionActive /\ t.faceLandmarker /\ t.isInitialized]

\* detect(), its first statement: the next frame is requested before any
\* condition is looked at
detect(t) ==
  [t EXCEPT !.animationFrameId = IF t.detectionActive THEN TRUE ELSE @,
            !.scheduled = t.detectionActive]

\* detect(), the rest: what this run does; detection is what detectForVideo
\* would do on the frame: "face", "noFace", "noLandmarks" (a face with fewer
\* than 478 landmarks, from which extractFaceDetection gets nothing) or
\* "throws"
detectOutcome(t, v, detection) ==
  IF ~t.faceLandmarker \/ ~t.isInitialized \/ ~t.detectionActive
  THEN "conditionsNotMet"
  ELSE IF v.readyState < 2 THEN "videoNotReady"
  ELSE IF v.videoWidth = 0 \/ v.videoHeight = 0 THEN "invalidDimensions"
  ELSE IF detection = "throws" THEN "error"
  ELSE detection

\* startDetectionLoop(): detect() is called once, synchronously
startDetectionLoop(t) ==
  IF t.detectionActive THEN t
  ELSE detect([t EXCEPT !.detectionActive = TRUE])

\* onResults(results): the gaze point kept afterwards
onResults(last, detection, gp, t) ==
  IF detection = "noFace"
  THEN IF last # NULL /\ t - last.timestamp > 500 THEN NULL ELSE last
  ELSE IF detection = "face" THEN gp
  ELSE last

\* mutant of dispose: the requested frame is not cancelled
disposeKeepingFrame(t) ==
  [t EXCEPT !.detectionActive = FALSE, !.animationFrameId = FALSE,
            !.stream = FALSE, !.faceLandmarker = FALSE,
            !.isInitialized = FALSE]

\* dispose(): the frame is cancelled if animationFrameId holds one
dispose(t) ==
  [t EXCEPT !.detectionActive = FALSE,
            !.scheduled = IF t.animationFrameId THEN FALSE ELSE @,
            !.animationFrameId = FALSE,
            !.stream = FALSE, !.faceLandmarker = FALSE,
            !.isInitialized = FALSE]

\* initialize(), catch: an Error is rethrown, anything else is wrapped
rejection(thrown) ==
  IF thrown.isError THEN thrown
  ELSE Error("Failed to initialize eye tracker")

\* mutant of StageEnds: a failure is recorded but the stages go on
StageEndsContinuing(name, thrown) ==
  /\ tracker' = [tracker EXCEPT !.stage = name]
  /\ log' = [log EXCEPT !.stages = Append(@, name),
                        !.rejection = IF thrown = NoError THEN @
                                      ELSE rejection(thrown)]

\* a stage of initialize() has ended; thrown is what it threw (NoError: it
\* passed)
StageEnds(name, thrown) ==
  /\ tracker' = [tracker EXCEPT !.stage = IF thrown = NoError THEN name
                                            ELSE "rejected"]
  /\ log' = [log EXCEPT !.stages = Append(@, name),
                        !.rejection = IF thrown = NoError THEN NoError
                                      ELSE rejection(thrown)]

TrackerFrame ==
  UNCHANGED <<rendererVars, windowVars, trackerReady, componentVars, lastCall,
              calls>>

StageCompatibility(missing) ==
  /\ tracker.stage = "new"
  /\ StageEnds(Stages[1], checkBrowserCompatibility(missing))
  /\ UNCHANGED <<video, lastGazePoint>>
  /\ TrackerFrame

StageNetwork(response) ==
  /\ tracker.stage = Stages[1]
  /\ StageEnds(Stages[2], checkNetworkConnectivity(response))
  /\ UNCHANGED <<video, lastGazePoint>>
  /\ TrackerFrame

StagePermissions(state, media) ==
  /\ tracker.stage = Stages[2]
  /\ LET thrown == requestCameraPermissions(state, media)
     IN /\ tracker' = [tracker EXCEPT !.stage = IF thrown = NoError
                                                 THEN Stages[3]
                                                 ELSE "rejected"]
        /\ log' = [log EXCEPT !.stages = Append(@, Stages[3]),
                              !.permission = state,
                              !.rejection = IF thrown = NoError THEN NoError
                                            ELSE rejection(thrown)]
  /\ UNCHANGED <<video, lastGazePoint>>
  /\ TrackerFrame

StageMediaPipe(loads, cpu, gpu, text) ==
  /\ tracker.stage = Stages[3]
  /\ LET r == initializeMediaPipe(loads, cpu, gpu, text)
     IN /\ tracker' = [tracker EXCEPT !.faceLandmarker = r.faceLandmarker,
                                      !.stage = IF r.error = NoError
                                                THEN Stages[4]
                                                ELSE "rejected"]
        /\ log' = [log EXCEPT !.stages = Append(@, Stages[4]),
                              !.loads = loads, !.cpu = cpu, !.gpu = gpu,
                              !.tried = r.tried, !.vision = r.vision,
                              !.configs = r.configs,
                              !.rejection = IF r.error = NoError THEN NoError
                                            ELSE rejection(r.error)]
  /\ UNCHANGED <<video, lastGazePoint>>
  /\ TrackerFrame

StageCamera(media, ready) ==
  /\ tracker.stage = Stages[4]
  /\ LET r == initializeCamera(media, ready)
     IN /\ tracker' = [tracker EXCEPT !.stream = r.stream,
                                      !.stage = IF r.error = NoError
                                                THEN Stages[5]
                                                ELSE "rejected"]
        /\ log' = [log EXCEPT !.stages = Append(@, Stages[5]),
                              !.rejection = IF r.error = NoError THEN NoError
                                            ELSE rejection(r.error)]
        /\ video' = IF r.error = NoError THEN ReadyVideo ELSE video
  /\ UNCHANGED lastGazePoint
  /\ TrackerFrame

\* part_002, detect(): the conditions are tested first and the run returns
\* without requesting a frame when they fail; a frame is requested when the
\* video is not ready, and at the end of a run that detected
detectOld(t) ==
  LET met == t.faceLandmarker /\ t.isInitialized /\ t.detectionActive
  IN [t EXCEPT !.animationFrameId = IF met THEN TRUE ELSE @,
               !.scheduled = met]

\* part_002, detect(): what the run does (the video's dimensions are not
\* looked at)
detectOutcomeOld(t, v, detection) ==
  IF ~t.faceLandmarker \/ ~t.isInitialized \/ ~t.detectionActive
  THEN "conditionsNotMet"
  ELSE IF v.readyState < 2 THEN "videoNotReady"
  ELSE IF detection = "throws" THEN "error"
  ELSE detection

\* part_002, startDetectionLoop()
startDetectionLoopOld(t) ==
  IF t.detectionActive THEN t
  ELSE detectOld([t EXCEPT !.detectionActive = TRUE])

\* this.startDetectionLoop(); this.isInitialized = true, in either version
StartsLoop ==
  /\ tracker.stage = Stages[5]
  /\ tracker' = [(IF tracker.version = "part_002"
                  THEN startDetectionLoopOld(tracker)
                  ELSE startDetectionLoop(tracker))
                   EXCEPT !.isInitialized = TRUE, !.stage = Stages[6]]
  /\ log' = IF tracker.detectionActive
            THEN [log EXCEPT !.stages = Append(@, Stages[6])]
            ELSE [log EXCEPT !.stages = Append(@, Stages[6]),
                             !.detect = "conditionsNotMet", !.runs = @ + 1]
  /\ UNCHANGED <<video, lastGazePoint>>
  /\ TrackerFrame

\* the browser runs the requested animation frame: the version's detect()
AnimationFrame(detection, gp) ==
  /\ tracker.scheduled
  /\ log.runs < MaxRuns
  /\ tracker' = IF tracker.version = "part_002" THEN detectOld(tracker)
                ELSE detect(tracker)
  /\ LET outcome == IF tracker.version = "part_002"
                    THEN detectOutcomeOld(tracker, video, detection)
                    ELSE detectOutcome(tracker, video, detection)
     IN /\ log' = [log EXCEPT !.detect = outcome, !.runs = @ + 1]
        /\ lastGazePoint' = IF outcome \in {"face", "noFace", "noLandmarks"}
                             THEN onResults(lastGazePoint, outcome, gp, now)
                             ELSE lastGazePoint
  /\ UNCHANGED video
  /\ TrackerFrame

\* the stream's video changes state (frames stall, the track ends, ...)
VideoChanges(v) ==
  /\ tracker.stream
  /\ video' = v
  /\ UNCHANGED <<tracker, log, lastGazePoint>>
  /\ TrackerFrame

\* dispose(), called by the component on the tracker it holds
Dispose ==
  /\ tracker.stage = Stages[6]
  /\ tracker' = [dispose(tracker) EXCEPT !.stage = "disposed"]
  /\ lastGazePoint' = NULL
  /\ UNCHANGED <<video, log>>
  /\ TrackerFrame

\* a new EyeTracker whose initialize() has just been called
TrackerInit ==
  /\ Init
  /\ innerWidth = SmallW /\ innerHeight = SmallH

TrackerNext ==
  \/ \E missing \in SUBSET {"getUserMedia", "isSecureContext", "WebAssembly",
                           "Canvas2D"} : StageCompatibility(missing)
  \/ \E response \in {"ok", "notOk", "rejects"} : StageNetwork(response)
  \/ \E pc \in PermissionCases : StagePermissions(pc[1], pc[2])
  \/ \E loads \in SUBSET (1..4), cpu \in BOOLEAN, gpu \in BOOLEAN,
        text \in {"model", "gpu", "other"} :
        StageMediaPipe(loads, cpu, gpu, text)
  \/ \E media \in {"ok", "NotReadableError"}, ready \in BOOLEAN :
        StageCamera(media, ready)
  \/ StartsLoop
  \/ Dispose

SpecTracker == TrackerInit /\ [][TrackerNext]_vars

(***************************************************************************)
(* SpecVideoReady: waitForVideoReady(), its poll timer and its timeout     *)
(***************************************************************************)
\* the video has valid dimensions and readyState >= HAVE_CURRENT_DATA
hasVideo(v) == (v.videoWidth > 0 /\ v.videoHeight > 0) /\ v.readyState >= 2

\* resolve() / reject(): a promise settles only while it is pending
settle(promise, as) == IF promise = "pending" THEN as ELSE promise

\* mutant of checkVideo: no limit on the attempts (the polling of part_002)
checkVideoUncapped(wt, v) ==
  LET attempts == wt.attempts + 1
  IN IF hasVideo(v)
     THEN [wt EXCEPT !.attempts = attempts, !.timeout = FALSE,
                     !.pollTimer = FALSE, !.pollDue = FALSE,
                     !.promise = settle(@, "resolved")]
     ELSE [wt EXCEPT !.attempts = attempts, !.pollTimer = TRUE,
                     !.pollDue = FALSE]

\* checkVideo(): one poll of the video element v
checkVideo(wt, v) ==
  LET attempts == wt.attempts + 1
  IN IF hasVideo(v)
     THEN [wt EXCEPT !.attempts = attempts, !.timeout = FALSE,
                     !.pollTimer = FALSE, !.pollDue = FALSE,
                     !.promise = settle(@, "resolved")]
     ELSE IF attempts >= maxAttempts
     THEN [wt EXCEPT !.attempts = attempts, !.timeout = FALSE,
                     !.pollTimer = FALSE, !.pollDue = FALSE,
                     !.promise = settle(@, "rejectedAttempts")]
     ELSE [wt EXCEPT !.attempts = attempts, !.pollTimer = TRUE,
                     !.pollDue = FALSE]

\* waitForVideoReady(): the timeout is set, then checkVideo() is called
waitForVideoReady(wt, v) ==
  checkVideo([wt EXCEPT !.promise = "pending", !.timeout = TRUE,
                        !.attempts = 0, !.elapsed = 0], v)

WaitStarts ==
  /\ tracker.wait.promise = "none"
  /\ tracker' = [tracker EXCEPT !.wait = waitForVideoReady(@, video)]
  /\ UNCHANGED <<video, log, lastGazePoint>>
  /\ TrackerFrame

\* setTimeout(checkVideo, 100) fires, 100 ms or more after it was set
PollFires ==
  /\ tracker.wait.pollTimer /\ tracker.wait.pollDue
  /\ tracker' = [tracker EXCEPT !.wait = checkVideo(@, video)]
  /\ UNCHANGED <<video, log, lastGazePoint>>
  /\ TrackerFrame

\* the 15 s timeout fires: reject(); the poll timer is not cleared
TimeoutFires ==
  /\ tracker.wait.timeout /\ tracker.wait.elapsed >= TimeoutMs
  /\ tracker' = [tracker EXCEPT !.wait.timeout = FALSE,
                                !.wait.promise = settle(@, "rejectedTimeout")]
  /\ UNCHANGED <<video, log, lastGazePoint>>
  /\ TrackerFrame

\* 100 ms pass
TimePasses ==
  /\ tracker.wait.promise # "none"
  /\ tracker.wait.elapsed < TimeoutMs + 2 * PollMs
  /\ tracker' = [tracker EXCEPT !.wait.elapsed = @ + PollMs,
                                !.wait.pollDue = tracker.wait.pollTimer]
  /\ UNCHANGED <<video, log, lastGazePoint>>
  /\ TrackerFrame

\* initializeCamera() has attached the stream and is about to wait
VideoReadyInit ==
  /\ \E vp \in Viewports :
        /\ innerWidth = vp[1] /\ innerHeight = vp[2]
        /\ canvas = [width |-> vp[1], height |-> vp[2], image |-> Blank]
  /\ width = 0 /\ height = 0
  /\ heatmapData = initializeHeatmapData(0, 0)
  /\ isVisible = TRUE
  /\ lastGazePoint = NULL
  /\ ComponentUnset
  /\ browser = WorkingBrowser
  /\ tracker = [NewTracker EXCEPT !.faceLandmarker = TRUE, !.stream = TRUE,
                                  !.stage = Stages[4]]
  /\ video = NoVideo
  /\ log = [NoLog EXCEPT !.stages = SubSeq(Stages, 1, 4)]
  /\ lastCall = Call("mount", NULL)
  /\ calls = 0

VideoReadyNext ==
  \/ WaitStarts
  \/ PollFires
  \/ TimeoutFires
  \/ TimePasses
  \/ \E v \in {NoVideo, ReadyVideo} : VideoChanges(v)

SpecVideoReady == VideoReadyInit /\ [][VideoReadyNext]_vars

\* the browser fires a timer that is due, and time passes
FairVideoReady ==
  /\ SpecVideoReady
  /\ WF_vars(WaitStarts) /\ WF_vars(PollFires) /\ WF_vars(TimeoutFires)
  /\ WF_vars(TimePasses)

(***************************************************************************)
(* SpecVersions: the detection loop in the two versions of the EyeTracker  *)
(* that the repository holds: the current one and the one of part_002      *)
(***************************************************************************)
VersionsInit ==
  /\ \E vp \in Viewports :
        /\ innerWidth = vp[1] /\ innerHeight = vp[2]
        /\ canvas = [width |-> vp[1], height |-> vp[2], image |-> Blank]
  /\ width = 0 /\ height = 0
  /\ heatmapData = initializeHeatmapData(0, 0)
  /\ isVisible = TRUE
  /\ lastGazePoint = NULL
  /\ ComponentUnset
  /\ browser = WorkingBrowser
  /\ \E version \in {"current", "part_002"} :
        tracker = [NewTracker EXCEPT !.version = version,
                                     !.faceLandmarker = TRUE, !.stream = TRUE,
                                     !.stage = Stages[5]]
  /\ video = ReadyVideo
  /\ log = [NoLog EXCEPT !.stages = SubSeq(Stages, 1, 5),
                         !.permission = "granted", !.loads = 1..4,
                         !.cpu = TRUE, !.gpu = TRUE, !.tried = <<1>>,
                         !.vision = 1, !.configs = <<"CPU">>]
  /\ lastCall = Call("mount", NULL)
  /\ calls = 0

VersionsNext ==
  \/ StartsLoop
  \/ \E detection \in {"face", "noFace", "noLandmarks", "throws"},
        gp \in TrackerOutputs(innerWidth, now) :
        AnimationFrame(detection, gp)
  \/ \E v \in VideoStates : VideoChanges(v)
  \/ Dispose
  \/ AdvanceClock

SpecVersions == VersionsInit /\ [][VersionsNext]_vars

(***************************************************************************)
(* SpecGaze: calculateGazePoint() on the faces onResults() passes to it.   *)
(* An eye is given by the offset of its iris centre from its centre        *)
(* (dx, dy) and by its width and height (w, h), all in video pixels; gaze  *)
(* directions are held in thousandths.                                     *)
(***************************************************************************)
Thousand == 1000

Max(a, b) == IF a >= b THEN a ELSE b

Eye(dx, dy, w, h) == [dx |-> dx, dy |-> dy, w |-> w, h |-> h]

\* faces: irises centred, slightly off and far off; eyes of normal size,
\* one pixel wide, and without width or height
Faces ==
  {[present |-> TRUE, left |-> l, right |-> r] :
      l \in {Eye(dx, dy, w, h) : dx \in {-40, 0, 3, 40}, dy \in {-3, 0, 40},
                                 w \in {0, 1, 30}, h \in {0, 30}},
      r \in {Eye(dx, 0, w, 30) : dx \in {0, 40}, w \in {0, 30}}}

\* leftEyeWidth > 0 ? (leftIrisCenter.x - leftEyeCenter.x) / leftEyeWidth : 0
GazeDirection(offset, size) ==
  IF size > 0 THEN (offset * Thousand) \div size ELSE 0

\* window.innerWidth * (0.5 + gazeX * 0.8), in half pixels
ScreenCoordinate(inner, gaze) == inner + (16 * inner * gaze) \div (10 * Thousand)

\* (eyeQuality / 20) * (1.0 - gazeDeviation * 0.3), in hundredths
RawConfidence(eyeQuality, gazeDeviation) ==
  (5 * eyeQuality * (10 * Thousand - 3 * gazeDeviation)) \div (10 * Thousand)

\* mutant of calculateGazePoint: the confidence is capped at 1 but has no
\* floor, the coordinates are not clamped
calculateGazePointUnclamped(face, w, h, t) ==
  LET gazeX == (GazeDirection(face.left.dx, face.left.w)
                  + GazeDirection(face.right.dx, face.right.w)) \div 2
      gazeY == (GazeDirection(face.left.dy, face.left.h)
                  + GazeDirection(face.right.dy, face.right.h)) \div 2
      eyeQuality == Min(Min(face.left.w, face.right.w),
                        Min(face.left.h, face.right.h))
      gazeDeviation == Max(gazeX, -gazeX) + Max(gazeY, -gazeY)
  IN  GazePoint(ScreenCoordinate(w, gazeX), ScreenCoordinate(h, gazeY),
                Min(100, RawConfidence(eyeQuality, gazeDeviation)), t)

\* calculateGazePoint(faceDetection) in a w x h window at time t
calculateGazePoint(face, w, h, t) ==
  LET gazeX == (GazeDirection(face.left.dx, face.left.w)
                  + GazeDirection(face.right.dx, face.right.w)) \div 2
      gazeY == (GazeDirection(face.left.dy, face.left.h)
                  + GazeDirection(face.right.dy, face.right.h)) \div 2
      eyeQuality == Min(Min(face.left.w, face.right.w),
                        Min(face.left.h, face.right.h))
      gazeDeviation == Max(gazeX, -gazeX) + Max(gazeY, -gazeY)
      confidence == Min(100, Max(10, RawConfidence(eyeQuality, gazeDeviation)))
  IN  GazePoint(Max(0, Min(2 * w, ScreenCoordinate(w, gazeX))),
                Max(0, Min(2 * h, ScreenCoordinate(h, gazeY))),
                confidence, t)

\* onResults(results) with a face whose eye landmarks could be extracted
GazeOnResults(face) ==
  /\ lastGazePoint' = calculateGazePoint(face, innerWidth, innerHeight, now)
  /\ log' = [log EXCEPT !.face = face]
  /\ lastCall' = Call("onResults", NULL)
  /\ UNCHANGED <<tracker, video, rendererVars, windowVars, trackerReady,
                 componentVars, calls>>

GazeNext ==
  \/ \E face \in Faces : GazeOnResults(face)
  \/ \E vp \in Viewports : handleResize(vp)

SpecGaze == VersionsInit /\ [][GazeNext]_vars

(***************************************************************************)
(* SpecRetry: initializeTracking() with its await, the mount effect's      *)
(* retries, and the Retry and Reload buttons of the error screen.          *)
(* EyeTracker.initialize() is taken as one step that succeeds exactly when *)
(* the browser is healthy.                                                 *)
(***************************************************************************)
\* the <video> and the two <canvas> elements are rendered, so that
\* videoRef.current, canvasRef.current and heatmapCanvasRef.current are set:
\* the error screen and the loading screen are returned instead of them, and
\* an unmounted component renders nothing
RefsSet == ~error /\ ~isInitializing /\ ~mountEffect.cleanedUp

\* mutant of AfterAttempt: one retry more
AfterAttemptInclusive(effect, success) ==
  IF ~effect.awaiting \/ success THEN [effect EXCEPT !.awaiting = FALSE]
  ELSE IF effect.retryCount <= maxRetries
  THEN [effect EXCEPT !.awaiting = FALSE, !.retryCount = @ + 1,
                      !.timer = TRUE]
  ELSE [effect EXCEPT !.awaiting = FALSE]

\* tryInitialize(), after initializeTracking() has returned success
AfterAttempt(effect, success) ==
  IF ~effect.awaiting \/ success THEN [effect EXCEPT !.awaiting = FALSE]
  ELSE IF effect.retryCount < maxRetries
  THEN [effect EXCEPT !.awaiting = FALSE, !.retryCount = @ + 1,
                      !.timer = TRUE]
  ELSE [effect EXCEPT !.awaiting = FALSE]

\* tryInitialize() gives up: setError('Failed to initialize eye tracking.
\* Please refresh the page.')
GivesUp(effect, success) ==
  effect.awaiting /\ ~success /\ effect.retryCount >= maxRetries

\* the window keeps its size and no detection runs in this specification
RetryFrame ==
  UNCHANGED <<windowVars, lastGazePoint, video, isTracking, showHeatmap,
              animationFrameRef, nextFrameId, currentGaze, fpsCounter,
              fps, debugMode, now, calls>>

\* initializeTracking() up to its await; byEffect tells whether tryInitialize
\* called it.  Without the elements it returns false at once, through finally.
\* With them it takes the mounted heatmap canvas (the one handleResize() sized
\* on mount, or a later one, created with the non-zero default size, for
\* which the small viewport stands) and constructs an EyeTracker on the
\* mounted video.  isMounted is true in every closure that can be called
initializeTrackingStarts(byEffect) ==
  LET effect == [mountEffect EXCEPT !.awaiting = byEffect,
                                    !.timer = IF byEffect THEN FALSE ELSE @,
                                    !.attempts = IF byEffect THEN @ + 1 ELSE @]
      retried == IF byEffect THEN log.retried ELSE browser.healthy
  IN IF RefsSet
     THEN /\ isInitializing' = TRUE
          /\ error' = FALSE
          /\ log' = [log EXCEPT !.setError = "", !.retried = retried]
          /\ tracker' = [NewTracker EXCEPT !.videoElement = browser.elements]
          /\ browser' = [browser EXCEPT !.eyeTrackers =
                           IF isInitializing \/ tracker.stage # "new"
                           THEN Append(@, tracker) ELSE @]
          /\ mountEffect' = [effect EXCEPT !.heatmapCanvas = browser.elements]
          /\ canvas' = IF browser.elements = 1 THEN canvas
                       ELSE [width |-> SmallW, height |-> SmallH,
                             image |-> Blank]
     ELSE /\ isInitializing' = FALSE
          /\ error' = (error \/ GivesUp(effect, FALSE))
          /\ log' = [log EXCEPT
                       !.setError =
                          IF GivesUp(effect, FALSE)
                          THEN "Failed to initialize eye tracking. Please refresh the page."
                          ELSE @,
                       !.retried = retried]
          /\ mountEffect' = AfterAttempt(effect, FALSE)
          /\ UNCHANGED <<tracker, browser, canvas>>

\* a timer of the mount effect fires: tryInitialize()
TimerFires ==
  /\ mountEffect.timer
  /\ initializeTrackingStarts(TRUE)
  /\ lastCall' = Call("tryInitialize", NULL)
  /\ UNCHANGED <<heatmapData, width, height, isVisible, trackerReady,
                 isInitialized, rendererRef, trackerRef, frames>>
  /\ RetryFrame

\* the Retry button of the error screen: onClick={initializeTracking}
Retry ==
  /\ error /\ ~isInitializing /\ ~mountEffect.cleanedUp
  /\ initializeTrackingStarts(FALSE)
  /\ lastCall' = Call("retry", NULL)
  /\ UNCHANGED <<heatmapData, width, height, isVisible, trackerReady,
                 isInitialized, rendererRef, trackerRef, frames>>
  /\ RetryFrame

\* initializeTracking() after await eyeTracker.initialize().  When it
\* resolved: the tracker is put in eyeTrackerRef, a zero-sized canvas is given
\* the window's size, false is returned if it is still zero-sized, and the
\* renderer is built otherwise.  When it rejected: the error is set.  finally
\* in every case, and React renders the main tree anew if nothing hides it
InitializeTrackingSettles ==
  /\ isInitializing /\ tracker.stage = "new"
  /\ LET sized == IF canvas.width = 0 \/ canvas.height = 0
                  THEN [width |-> innerWidth, height |-> innerHeight,
                        image |-> Blank]
                  ELSE canvas
         success == browser.healthy /\ sized.width # 0 /\ sized.height # 0
     IN /\ IF browser.healthy
           THEN /\ tracker' = [tracker EXCEPT
                                 !.faceLandmarker = TRUE, !.stream = TRUE,
                                 !.isInitialized = TRUE,
                                 !.detectionActive = TRUE,
                                 !.animationFrameId = TRUE,
                                 !.scheduled = TRUE, !.stage = Stages[6]]
                /\ trackerRef' = TRUE /\ trackerReady' = TRUE
                /\ canvas' = sized
                /\ IF success
                   THEN /\ width' = sized.width /\ height' = sized.height
                        /\ heatmapData' =
                              initializeHeatmapData(sized.width, sized.height)
                        /\ isVisible' = TRUE
                        /\ rendererRef' = TRUE
                        /\ isInitialized' = TRUE
                   ELSE UNCHANGED <<heatmapData, width, height, isVisible,
                                    rendererRef, isInitialized>>
                /\ error' = GivesUp(mountEffect, success)
           ELSE /\ tracker' = [tracker EXCEPT !.stage = "rejected"]
                /\ error' = TRUE
                /\ UNCHANGED <<rendererVars, trackerReady, isInitialized,
                               rendererRef, trackerRef>>
        /\ log' = [log EXCEPT
                     !.setError =
                        IF GivesUp(mountEffect, success)
                        THEN "Failed to initialize eye tracking. Please refresh the page."
                        ELSE IF ~browser.healthy THEN "err.message"
                        ELSE @]
        /\ mountEffect' = AfterAttempt(mountEffect, success)
  /\ isInitializing' = FALSE
  /\ browser' = [browser EXCEPT !.elements =
                   IF ~error' /\ ~mountEffect.cleanedUp THEN @ + 1 ELSE @]
  /\ lastCall' = Call("initializeTracking", NULL)
  /\ UNCHANGED frames
  /\ RetryFrame

\* the component is unmounted: the cleanup of the mount effect.  Only the
\* first timer is cleared; eyeTrackerRef.current, the EyeTracker whose
\* initialize() resolved last, is disposed
Unmount ==
  /\ ~mountEffect.cleanedUp
  /\ mountEffect' = [mountEffect EXCEPT
                       !.cleanedUp = TRUE,
                       !.timer = @ /\ mountEffect.attempts > 0]
  /\ IF trackerRef /\ tracker.stage = Stages[6]
     THEN /\ tracker' = [dispose(tracker) EXCEPT !.stage = "disposed"]
          /\ trackerReady' = FALSE
          /\ UNCHANGED browser
     ELSE IF trackerRef /\ browser.eyeTrackers # <<>>
     THEN /\ browser' = [browser EXCEPT
                           !.eyeTrackers[Len(browser.eyeTrackers)] =
                              [dispose(@) EXCEPT !.stage = "disposed"]]
          /\ UNCHANGED <<tracker, trackerReady>>
     ELSE UNCHANGED <<tracker, trackerReady, browser>>
  /\ frames' = IF animationFrameRef # 0 THEN Cancel(frames, animationFrameRef)
               ELSE frames
  /\ lastCall' = Call("unmount", NULL)
  /\ UNCHANGED <<rendererVars, log, isInitialized, error, rendererRef,
                 trackerRef, isInitializing>>
  /\ RetryFrame

\* what made initialize() fail goes away (the camera is freed, the network
\* is back, the permission is granted)
CauseRemoved ==
  /\ ~browser.healthy
  /\ browser' = [browser EXCEPT !.healthy = TRUE]
  /\ UNCHANGED <<rendererVars, trackerReady, tracker, log, isInitialized,
                 error, rendererRef, trackerRef, isInitializing, mountEffect,
                 lastCall, frames>>
  /\ RetryFrame

\* the Reload Page button: window.location.reload() mounts the page anew
Reload ==
  /\ error /\ ~mountEffect.cleanedUp
  /\ width' = 0 /\ height' = 0
  /\ heatmapData' = initializeHeatmapData(0, 0)
  /\ isVisible' = TRUE
  /\ canvas' = [width |-> innerWidth, height |-> innerHeight, image |-> Blank]
  /\ trackerReady' = FALSE /\ tracker' = NewTracker /\ log' = NoLog
  /\ isInitialized' = FALSE /\ error' = FALSE
  /\ rendererRef' = FALSE /\ trackerRef' = FALSE
  /\ isInitializing' = FALSE
  /\ mountEffect' = [retryCount |-> 0, timer |-> TRUE, awaiting |-> FALSE,
                     attempts |-> 0, cleanedUp |-> FALSE, heatmapCanvas |-> 0]
  /\ browser' = [browser EXCEPT !.elements = 1, !.eyeTrackers = <<>>]
  /\ frames' = <<>>
  /\ lastCall' = Call("mount", NULL)
  /\ RetryFrame

\* the page is mounted in a window of one of the sizes, or in one without
\* width (a hidden frame), with handleResize() run on the canvas
RetryInit ==
  /\ \E vp \in Viewports \cup {<<0, SmallH>>} :
        /\ innerWidth = vp[1] /\ innerHeight = vp[2]
        /\ canvas = [width |-> vp[1], height |-> vp[2], image |-> Blank]
  /\ width = 0 /\ height = 0
  /\ heatmapData = initializeHeatmapData(0, 0)
  /\ isVisible = TRUE
  /\ lastGazePoint = NULL
  /\ ComponentUnset
  /\ tracker = NewTracker /\ video = NoVideo /\ log = NoLog
  /\ \E healthy \in BOOLEAN : browser = [WorkingBrowser EXCEPT !.healthy = healthy]
  /\ lastCall = Call("mount", NULL)
  /\ calls = 0

RetryNext ==
  \/ TimerFires
  \/ Retry
  \/ InitializeTrackingSettles
  \/ Unmount
  \/ CauseRemoved
  \/ Reload

SpecRetry == RetryInit /\ [][RetryNext]_vars

\* the browser fires a timer that is due and settles initialize()
FairRetry ==
  /\ SpecRetry
  /\ WF_vars(TimerFires) /\ WF_vars(InitializeTrackingSettles)

(***************************************************************************)
(* Claims about the HeatmapRenderer.  They are stated with their own       *)
(* notions of pixel, acceptance and distance, not with the operators       *)
(* above.                                                                  *)
(***************************************************************************)
Cells(data) == {<<y, x>> \in (DOMAIN data) \X (0..(FieldW + SmallW + 2)) :
                  x \in DOMAIN data[y]}

\* the pixel whose unit square contains the coordinate v2 / 2
PixelContaining(v2) ==
  CHOOSE p \in -2..(FieldW + SmallW + 2) : 2 * p <= v2 /\ v2 < 2 * p + 2

\* the integer nearest to v2 / 2 (a half rounds up, as Math.round does)
PixelNearest(v2) ==
  CHOOSE p \in -2..(FieldW + SmallW + 2) : 2 * p - 1 <= v2 /\ v2 < 2 * p + 1

InField(px, py) == px >= 0 /\ px < width /\ py >= 0 /\ py < height

\* this step is a call addGazePoint(lastCall'.gp)
IsIngest == lastCall'.op = "addGazePoint"

\* ... of a sample the renderer does not reject
IsAcceptedIngest ==
  /\ IsIngest
  /\ lastCall'.gp # NULL
  /\ lastCall'.gp.confidence >= 30
  /\ InField(PixelContaining(lastCall'.gp.x2), PixelContaining(lastCall'.gp.y2))

\* squared distance of cell c = <<y, x>> from the pixel (cx, cy)
SquaredDistance(c, cx, cy) ==
  (c[2] - cx) * (c[2] - cx) + (c[1] - cy) * (c[1] - cy)

\* C1: every cell of heatmapData is >= 0 and <= maxIntensity (100), whatever
\* addGazePoint, clear and resize calls were made.
C1_Saturation ==
  \A c \in Cells(heatmapData) :
     heatmapData[c[1]][c[2]] >= 0 /\ heatmapData[c[1]][c[2]] <= 100 * Scale

\* C1 witness: an ingestion has just capped a cell at maxIntensity while
\* another cell of the same field is still strictly between 0 and 100.
C1_Witness ==
  /\ lastCall.op = "addGazePoint"
  /\ \E c \in Cells(heatmapData) : heatmapData[c[1]][c[2]] = 100 * Scale
  /\ \E c \in Cells(heatmapData) :
        heatmapData[c[1]][c[2]] > 0 /\ heatmapData[c[1]][c[2]] < 100 * Scale

\* C3 as claimed: a sample whose position ROUNDED to the nearest integer is
\* outside [0,width) x [0,height) leaves heatmapData unchanged.
C3_RoundedOutsideUnchanged ==
  [][(IsIngest /\ lastCall'.gp # NULL
        /\ ~InField(PixelNearest(lastCall'.gp.x2), PixelNearest(lastCall'.gp.y2)))
     => heatmapData' = heatmapData]_vars

\* C3 amended: a sample whose position rounded DOWN (Math.floor) is outside
\* [0,width) x [0,height) leaves heatmapData unchanged.
C3_FlooredOutsideUnchanged ==
  [][(IsIngest /\ lastCall'.gp # NULL
        /\ ~InField(PixelContaining(lastCall'.gp.x2),
                    PixelContaining(lastCall'.gp.y2)))
     => heatmapData' = heatmapData]_vars

\* C3 witness: a confident sample half a pixel left of the field (x = -0.5)
\* was passed to addGazePoint over a field that already holds intensity.
C3_Witness ==
  /\ lastCall.op = "addGazePoint" /\ lastCall.gp # NULL
  /\ lastCall.gp.confidence >= 30
  /\ lastCall.gp.x2 = -1
  /\ InField(0, PixelContaining(lastCall.gp.y2))
  /\ \E c \in Cells(heatmapData) : heatmapData[c[1]][c[2]] > 0

\* C4: addGazePoint with a null sample or a confidence below 0.3 leaves every
\* cell of heatmapData unchanged, whatever the position.
C4_LowConfidenceUnchanged ==
  [][(IsIngest /\ (lastCall'.gp = NULL \/ lastCall'.gp.confidence < 30))
     => heatmapData' = heatmapData]_vars

\* C4 witness: a sample of confidence 0.29 inside the field was passed to
\* addGazePoint over a field that already holds intensity.
C4_Witness ==
  /\ lastCall.op = "addGazePoint" /\ lastCall.gp # NULL
  /\ lastCall.gp.confidence = 29
  /\ InField(PixelContaining(lastCall.gp.x2), PixelContaining(lastCall.gp.y2))
  /\ \E c \in Cells(heatmapData) : heatmapData[c[1]][c[2]] > 0

\* C5: an accepted addGazePoint changes exactly the in-field cells within
\* distance R = 30 of the sample's pixel (distance R included; a cell already
\* at maxIntensity cannot grow), leaves every other cell unchanged and keeps
\* the shape of the field.
C5_KernelSupport ==
  [][IsAcceptedIngest =>
       LET cx == PixelContaining(lastCall'.gp.x2)
           cy == PixelContaining(lastCall'.gp.y2)
       IN /\ Cells(heatmapData') = Cells(heatmapData)
          /\ \A c \in Cells(heatmapData) :
               IF SquaredDistance(c, cx, cy) <= 30 * 30
               THEN heatmapData[c[1]][c[2]] < 100 * Scale
                      => heatmapData'[c[1]][c[2]] > heatmapData[c[1]][c[2]]
               ELSE heatmapData'[c[1]][c[2]] = heatmapData[c[1]][c[2]]]_vars

\* C5 witness: a sample in the corner pixel (0,0) was accepted: the cell at
\* distance exactly 30 is touched, the cells at distance 31 and sqrt(901)
\* are not.
C5_Witness ==
  /\ lastCall.op = "addGazePoint" /\ lastCall.gp # NULL
  /\ lastCall.gp.confidence >= 30
  /\ lastCall.gp.x2 = 0 /\ lastCall.gp.y2 = 0
  /\ calls = 1
  /\ width > 31 /\ height > 1
  /\ heatmapData[0][30] > 0
  /\ heatmapData[0][31] = 0
  /\ heatmapData[1][30] = 0

\* one step from a towards b (a itself when a = b)
Toward(a, b) == IF a < b THEN a + 1 ELSE IF a > b THEN a - 1 ELSE a

\* C6: on an accepted sample the sample's own cell receives the full
\* confidence*2 (falloff 1 at distance 0), capped at maxIntensity; every
\* affected cell grows by at most that; and on a zero field no cell receives
\* more than its neighbour one step nearer the sample (falloff non-increasing
\* in distance), so the sample's own cell holds the largest increase.
C6_CentreLargest ==
  [][IsAcceptedIngest =>
       LET gp == lastCall'.gp
           cy == PixelContaining(gp.y2)
           cx == PixelContaining(gp.x2)
           full == (gp.confidence * 2 * Scale) \div 100
       IN /\ heatmapData'[cy][cx] = Min(100 * Scale, heatmapData[cy][cx] + full)
          /\ \A c \in Cells(heatmapData) :
                /\ heatmapData'[c[1]][c[2]] >= heatmapData[c[1]][c[2]]
                /\ heatmapData'[c[1]][c[2]] <= heatmapData[c[1]][c[2]] + full
          /\ (\A c \in Cells(heatmapData) : heatmapData[c[1]][c[2]] = 0)
                => \A c \in Cells(heatmapData) :
                      /\ heatmapData'[c[1]][c[2]] <= heatmapData'[cy][cx]
                      /\ heatmapData'[c[1]][c[2]]
                           <= heatmapData'[c[1]][Toward(c[2], cx)]
                      /\ heatmapData'[c[1]][c[2]]
                           <= heatmapData'[Toward(c[1], cy)][c[2]]]_vars

\* C6 witness: one sample of confidence 1.0 was accepted at pixel (0,0) of a
\* zero field: its cell holds 2.0 and the cell at distance 30 holds less.
C6_Witness ==
  /\ lastCall.op = "addGazePoint" /\ lastCall.gp # NULL
  /\ lastCall.gp.confidence = 100
  /\ lastCall.gp.x2 = 0 /\ lastCall.gp.y2 = 0
  /\ calls = 1
  /\ width > 30
  /\ heatmapData[0][0] = 2 * Scale
  /\ heatmapData[0][30] > 0 /\ heatmapData[0][30] < heatmapData[0][1]

\* the cells the repeated sample affects: in the field, within distance 30
AffectedCells ==
  LET cx == PixelContaining(lastGazePoint.x2)
      cy == PixelContaining(lastGazePoint.y2)
  IN IF ~InField(cx, cy) THEN {}
     ELSE {c \in Cells(heatmapData) : SquaredDistance(c, cx, cy) <= 30 * 30}

AllAffectedSaturated ==
  \A c \in AffectedCells : heatmapData[c[1]][c[2]] = 100 * Scale

\* C7: ingesting the same accepted sample again and again, every affected
\* cell is non-decreasing, never exceeds maxIntensity, and every affected
\* cell (those on the kernel boundary too) eventually reaches maxIntensity
\* and stays there.
C7_Convergence ==
  /\ [][\A c \in Cells(heatmapData) :
          heatmapData'[c[1]][c[2]] >= heatmapData[c[1]][c[2]]]_vars
  /\ [](\A c \in Cells(heatmapData) : heatmapData[c[1]][c[2]] <= 100 * Scale)
  /\ <>[]AllAffectedSaturated

\* C7 witness: the sample at pixel (0,0) has been ingested until the cell on
\* the kernel boundary (distance 30) reached maxIntensity.
C7_Witness ==
  /\ lastCall.op = "addGazePoint"
  /\ lastGazePoint.x2 = 0 /\ lastGazePoint.y2 = 0
  /\ width > 30
  /\ AffectedCells # {}
  /\ heatmapData[0][30] = 100 * Scale
  /\ AllAffectedSaturated

(***************************************************************************)
(* Claims about the tracking loop of the component                         *)
(***************************************************************************)
\* C2: while tracking is on, a next animation frame running trackingLoop is
\* always scheduled, so every tick is followed by another tick.
C2_LoopAlive == isTracking => frames # <<>>

\* C8: the step that turns tracking off leaves heatmapData as it is, and no
\* run of trackingLoop while tracking is off calls addGazePoint or changes
\* heatmapData (also a frame that was scheduled before the Stop).
C8_StopHaltsIngestion ==
  [][/\ (isTracking /\ ~isTracking')
          => (heatmapData' = heatmapData /\ lastCall'.gp = NULL)
     /\ (lastCall'.op = "trackingLoop" /\ ~isTracking')
          => (heatmapData' = heatmapData /\ lastCall'.gp = NULL)]_vars

\* C8 witness: tracking was started once and stopped before its first frame
\* ran; that frame has now run while the tracker held a sample the renderer
\* would accept.
C8_Witness ==
  /\ ~isTracking /\ nextFrameId = 2 /\ frames = <<>>
  /\ lastCall.op = "trackingLoop"
  /\ lastGazePoint # NULL
  /\ lastGazePoint.confidence >= 30
  /\ InField(PixelContaining(lastGazePoint.x2), PixelContaining(lastGazePoint.y2))

\* C9: on every tracking tick with the heatmap visible render() is called,
\* also when getGazePoint() returns null.
C9_RenderEveryTick ==
  [][(lastCall'.op = "trackingLoop" /\ isTracking /\ showHeatmap)
       => lastCall'.render]_vars

(***************************************************************************)
(* Claims about clear, resize, render and setVisible                       *)
(***************************************************************************)
\* the field has exactly h rows of w cells
HasShape(data, w, h) ==
  /\ DOMAIN data = 0..(h - 1)
  /\ \A y \in DOMAIN data : DOMAIN data[y] = 0..(w - 1)

AllZero(data) == \A y \in DOMAIN data : \A x \in DOMAIN data[y] : data[y][x] = 0

\* C11: clear() sets every cell of heatmapData to 0 and keeps the field's
\* dimensions, whatever was accumulated before; a clear() right after a
\* clear() changes nothing of the renderer (idempotent).
C11_ClearResets ==
  [][lastCall'.op = "clear" =>
       /\ width' = width /\ height' = height
       /\ HasShape(heatmapData', width, height)
       /\ AllZero(heatmapData')
       /\ lastCall.op = "clear" =>
             /\ heatmapData' = heatmapData
             /\ isVisible' = isVisible
             /\ canvas' = canvas]_vars

\* C11 witness: clear() has just been called on a field that held intensity.
C11_Witness ==
  /\ lastCall.op = "clear" /\ lastCall.nonzero
  /\ width > 0 /\ height > 0
  /\ AllZero(heatmapData)

\* C12: render() on an all-zero field leaves the canvas fully transparent and
\* does not end with an exception; nothing is drawn with a zero maxValue.
C12_RenderZeroField ==
  [][(lastCall'.op = "render" /\ AllZero(heatmapData)) =>
       /\ ~canvas'.image.drawn
       /\ ~lastCall'.threw]_vars

\* C13: after resize() to a viewport of w2 x h2, heatmapData has exactly h2
\* rows of w2 cells (w2*h2 cells), all zero, whatever the field's dimensions
\* and contents were before.
C13_ResizeResets ==
  [][lastCall'.op = "resize" =>
       /\ HasShape(heatmapData', innerWidth', innerHeight')
       /\ Cardinality(Cells(heatmapData')) = innerWidth' * innerHeight'
       /\ AllZero(heatmapData')]_vars

\* C13 witness: resize() has just been called on a field that held intensity,
\* and the new field has cells.
C13_Witness ==
  /\ lastCall.op = "resize" /\ lastCall.nonzero
  /\ innerWidth > 0 /\ innerHeight > 0
  /\ Cardinality(Cells(heatmapData)) = innerWidth * innerHeight
  /\ AllZero(heatmapData)

\* C14: after construction and after any sequence of addGazePoint, clear,
\* resize, render and setVisible, heatmapData has exactly `height` rows of
\* `width` cells and width, height equal the canvas's width and height; a
\* resize makes them the viewport's size, and they stay the viewport's size
\* through every call that follows.
C14_Dimensions ==
  /\ [](/\ HasShape(heatmapData, width, height)
        /\ width = canvas.width /\ height = canvas.height)
  /\ [][lastCall'.op = "resize"
          => (width' = innerWidth' /\ height' = innerHeight')]_vars
  /\ [][(width = innerWidth /\ height = innerHeight)
          => (width' = innerWidth' /\ height' = innerHeight')]_vars

\* C14 witness: a hidden renderer whose field held intensity has just been
\* resized from a canvas of another size to a viewport with cells.
C14_Witness ==
  /\ lastCall.op = "resize" /\ lastCall.nonzero
  /\ ~isVisible
  /\ width = innerWidth /\ height = innerHeight
  /\ width = FieldH /\ height = SmallW
  /\ HasShape(heatmapData, FieldH, SmallW)

\* C15: no renderer stands over a field without area: constructing over a
\* canvas of zero width or height, or resizing to one, raises an error
\* instead.
C15_NoZeroSizedField ==
  (lastCall.op \in {"constructor", "resize"} /\ ~lastCall.threw)
     => (width > 0 /\ height > 0)

\* C16: render() never mutates the field: heatmapData, width and height are
\* the same before and after every render() call, visible or hidden, on a
\* zero field or not.
C16_RenderReadOnly ==
  [][lastCall'.op = "render" =>
       /\ heatmapData' = heatmapData
       /\ width' = width /\ height' = height]_vars

\* C16 witness: a visible render() has just drawn a field holding a cell
\* below the maximum and above 0, which normalizing would have changed.
C16_Witness ==
  /\ lastCall.op = "render" /\ isVisible
  /\ canvas.image.drawn
  /\ \E c \in Cells(heatmapData) :
        /\ heatmapData[c[1]][c[2]] > 0
        /\ \E d \in Cells(heatmapData) :
              heatmapData[c[1]][c[2]] < heatmapData[d[1]][d[2]]

\* C17: while the renderer is hidden (from setVisible(false) until
\* setVisible(true)) the canvas is fully transparent, through every render(),
\* addGazePoint() and clear(); setVisible never changes heatmapData; and an
\* accepted addGazePoint adds the sample's intensity to the field while the
\* renderer is hidden.
C17_HiddenStaysTransparent ==
  /\ [](~isVisible => ~canvas.image.drawn)
  /\ [][lastCall'.op = "setVisible" => heatmapData' = heatmapData]_vars
  /\ [][(~isVisible /\ IsAcceptedIngest) =>
          LET gp == lastCall'.gp
              cy == PixelContaining(gp.y2)
              cx == PixelContaining(gp.x2)
          IN heatmapData'[cy][cx] =
               Min(100 * Scale,
                   heatmapData[cy][cx] + (gp.confidence * 2 * Scale) \div 100)]_vars

\* C17 witness: the renderer is hidden, its field holds intensity, render()
\* has just been called and the canvas shows nothing.
C17_Witness ==
  /\ ~isVisible
  /\ lastCall.op = "render"
  /\ ~AllZero(heatmapData)
  /\ ~canvas.image.drawn

\* C20: whatever calls (addGazePoint, resize, clear, setVisible) came before
\* it in whatever order, a render() call starts on a heatmapData whose row
\* and column counts equal the height and width it iterates over, and what
\* it draws is that whole field: the complete field a resize or clear left,
\* never a partly resized or partly cleared one.
C20_RenderSeesWholeField ==
  [][lastCall'.op = "render" =>
       /\ HasShape(heatmapData, width, height)
       /\ canvas'.image.drawn =>
             /\ canvas'.image.field = heatmapData
             /\ HasShape(canvas'.image.field, canvas'.width, canvas'.height)]_vars

\* C20 witness: after the calls the bound allows, render() has drawn a
\* non-zero field of the size of the window, on a canvas of that size.
C20_Witness ==
  /\ lastCall.op = "render" /\ canvas.image.drawn
  /\ calls = MaxIngest
  /\ width = innerWidth /\ height = innerHeight
  /\ width = FieldH /\ height = SmallW
  /\ canvas.image.field = heatmapData
  /\ HasShape(heatmapData, innerWidth, innerHeight)

(***************************************************************************)
(* Claims about normalization and the color ramp                           *)
(***************************************************************************)
\* the ramp's last color: red, alpha 0.9 * 255 rounded
Hottest == <<255, 0, 0, 230>>

\* cell c holds the maximum of the field
IsMaximum(data, c) ==
  \A d \in Cells(data) : data[d[1]][d[2]] <= data[c[1]][c[2]]

Ramp == << <<0, <<0, 0, 0, 0>>>>,   <<2, <<0, 0, 255, 3>>>>,
           <<4, <<0, 255, 0, 5>>>>, <<6, <<255, 255, 0, 7>>>>,
           <<8, <<255, 165, 0, 8>>>>, <<10, <<255, 0, 0, 9>>>> >>

Abs(a) == IF a < 0 THEN -a ELSE a

\* out is an integer nearest to  scale * (c0 + (c1 - c0) * (v - lo) / (hi - lo)) / tenths
IsNearest(out, c0, c1, v, lo, hi, scale, tenths) ==
  2 * Abs(out * tenths * (hi - lo)
            - scale * (c0 * (hi - lo) + (c1 - c0) * (v - lo)))
     <= tenths * (hi - lo)

\* col is the color of the normalized value v (in 1/Scale): transparent for
\* 0, else the channel-wise linear interpolation between two neighbouring
\* control points that bracket v
OnRamp(v, col) ==
  /\ v >= 0 /\ v <= Scale
  /\ v = 0 => col = <<0, 0, 0, 0>>
  /\ v > 0 => \E k \in 1..5 :
        LET lo == Ramp[k][1] * (Scale \div 10)
            hi == Ramp[k + 1][1] * (Scale \div 10)
            c0 == Ramp[k][2]
            c1 == Ramp[k + 1][2]
        IN /\ lo <= v /\ v <= hi
           /\ \A ch \in 1..3 : IsNearest(col[ch], c0[ch], c1[ch], v, lo, hi, 1, 1)
           /\ IsNearest(col[4], c0[4], c1[4], v, lo, hi, 255, 10)

\* normalized values on and next to every control point and between them
RampProbes ==
  {v \in {k * (Scale \div 20) + e : k \in 0..20, e \in {-1, 0, 1}} :
     v >= 0 /\ v <= Scale}

\* C19: getHeatmapColor(0) is fully transparent; for a normalized value in
\* (0,1] the color is the per-channel linear interpolation between the two
\* bracketing control points of the 6-stop ramp; and every value render()
\* passes is within [0,1] and colored that way.
C19_ColorRamp ==
  [][lastCall'.op = "render" =>
       /\ \A v \in RampProbes : OnRamp(v, getHeatmapColor(v))
       /\ canvas'.image.drawn =>
             \A c \in Cells(heatmapData) :
                OnRamp(PixelValue(canvas'.image, c[2], c[1]),
                       PixelColor(canvas'.image, c[2], c[1]))]_vars

\* a pixel of the image whose normalized value lies strictly between lo and
\* hi tenths
HasPixelBetween(img, lo, hi) ==
  \E c \in Cells(img.field) :
     /\ PixelValue(img, c[2], c[1]) > lo * (Scale \div 10)
     /\ PixelValue(img, c[2], c[1]) < hi * (Scale \div 10)

\* C19 witness: a drawn image with a transparent pixel of value 0 and pixels
\* inside each of the five segments of the ramp.
C19_Witness ==
  /\ lastCall.op = "render" /\ canvas.image.drawn
  /\ \E c \in Cells(canvas.image.field) :
        /\ PixelValue(canvas.image, c[2], c[1]) = 0
        /\ PixelColor(canvas.image, c[2], c[1]) = <<0, 0, 0, 0>>
  /\ \A k \in 0..4 : HasPixelBetween(canvas.image, 2 * k, 2 * k + 2)

(***************************************************************************)
(* Claims about the EyeTracker                                             *)
(***************************************************************************)
\* a step in which detect() ran
DetectRan == log'.runs # log.runs

\* the conditions under which a run of detect() may call detectForVideo
DetectionPossible ==
  /\ tracker.faceLandmarker /\ tracker.isInitialized /\ tracker.detectionActive
  /\ video.readyState >= 2 /\ video.videoWidth > 0 /\ video.videoHeight > 0

\* C21: in the current EyeTracker the detection loop never stops while
\* detectionActive is true: in every state with detectionActive a next run of
\* detect() is requested; every run of detect() made while detectionActive
\* leaves the next one requested, whatever the run did (conditions not met on
\* the first run, video not ready, zero dimensions, detection exception); and
\* a run made when the preconditions hold does call the detection.
C21_LoopNeverStops ==
  /\ []((tracker.version = "current" /\ tracker.detectionActive)
          => tracker.scheduled)
  /\ [][(tracker.version = "current" /\ DetectRan) =>
          /\ tracker'.detectionActive => tracker'.scheduled
          /\ DetectionPossible <=>
                log'.detect \in {"face", "noFace", "noLandmarks", "error"}
          /\ log.runs = 0 => log'.detect = "conditionsNotMet"]_vars

\* C21 witness: after a run of the current detect() that skipped detection or
\* met an exception and was not the first, the loop is still requested
C21_Witness ==
  /\ tracker.version = "current"
  /\ log.runs >= 2
  /\ log.detect \in {"videoNotReady", "invalidDimensions", "error"}
  /\ tracker.detectionActive /\ tracker.scheduled

\* C23: when navigator.permissions.query reports 'denied',
\* requestCameraPermissions rejects with the 'Camera permission has been
\* denied' error: initialize() is rejected with that message and stops after
\* its third stage.
C23_DeniedRejects ==
  log.permission = "denied" =>
     /\ tracker.stage = "rejected"
     /\ log.rejection =
          [isError |-> TRUE, message |-> "Camera permission has been denied"]
     /\ Len(log.stages) = 3

\* initialize() has been rejected
Rejected == log.rejection.message # ""

\* the order in which initialize() is to run its stages
StageOrder == <<"checkBrowserCompatibility", "checkNetworkConnectivity",
                "requestCameraPermissions", "initializeMediaPipe",
                "initializeCamera", "startDetectionLoop">>

\* C25: initialize() runs its six stages in the stated order; once a stage
\* has failed no later stage runs, initialize() is rejected with an Error,
\* and isReady() is false then and ever after; isReady() is true only when
\* all six stages have run without a failure.
C25_StagesInOrder ==
  /\ [](/\ Len(log.stages) <= 6
        /\ \A i \in 1..Len(log.stages) : log.stages[i] = StageOrder[i]
        /\ Rejected => /\ log.rejection.isError
                       /\ ~(tracker.isInitialized /\ tracker.detectionActive)
                       /\ log.runs = 0
        /\ (tracker.isInitialized /\ tracker.detectionActive)
              => (Len(log.stages) = 6 /\ ~Rejected))
  /\ [][Rejected => (log'.stages = log.stages /\ Rejected')]_vars

\* C25 witness: the camera stage failed after MediaPipe had been set up
C25_Witness ==
  /\ Rejected /\ Len(log.stages) = 5
  /\ tracker.faceLandmarker /\ ~tracker.detectionActive

\* C26: every gaze sample calculateGazePoint emits has its confidence in
\* [0.1, 1] and its x and y within [0, innerWidth] and [0, innerHeight] of
\* the window it was computed for, whatever the landmarks: eyes without
\* width or height included.
C26_SampleContract ==
  [][lastCall'.op = "onResults" =>
       /\ lastGazePoint'.confidence >= 10 /\ lastGazePoint'.confidence <= 100
       /\ lastGazePoint'.x2 >= 0 /\ lastGazePoint'.x2 <= 2 * innerWidth
       /\ lastGazePoint'.y2 >= 0 /\ lastGazePoint'.y2 <= 2 * innerHeight]_vars

\* C26 witness: a face whose left eye has no width and whose right iris is
\* far off centre gives a sample on the window's right edge with the lowest
\* confidence
C26_Witness ==
  /\ log.face.present /\ log.face.left.w = 0 /\ log.face.right.dx > 0
  /\ lastGazePoint # NULL
  /\ lastGazePoint.x2 = 2 * innerWidth /\ lastGazePoint.confidence = 10

\* initializeMediaPipe() has run
MediaPipeRan == Len(log.stages) >= 4

\* C28: the WASM loading strategies are tried one at a time in their listed
\* order up to the first that loads, which is the one used, and none after
\* it; the FaceLandmarker is created with the CPU configuration first and
\* GPU is attempted only when CPU failed; when no strategy loads or both
\* configurations fail, initializeMediaPipe rejects with an Error and
\* faceLandmarker stays null; otherwise the landmarker is set.
C28_FallbackOrder ==
  [][(~MediaPipeRan /\ MediaPipeRan') =>
       LET n == Len(log'.tried)
           loaded == log'.loads # {}
           created == loaded /\ (log'.cpu \/ log'.gpu)
       IN /\ n >= 1 /\ n <= 4
          /\ \A i \in 1..n : log'.tried[i] = i
          /\ \A i \in 1..(n - 1) : i \notin log'.loads
          /\ loaded => (n \in log'.loads /\ log'.vision = n)
          /\ ~loaded => (n = 4 /\ log'.vision = 0 /\ log'.configs = <<>>)
          /\ loaded => /\ log'.configs[1] = "CPU"
                       /\ log'.cpu => log'.configs = <<"CPU">>
                       /\ ~log'.cpu => log'.configs = <<"CPU", "GPU">>
          /\ created <=> tracker'.faceLandmarker
          /\ ~tracker.faceLandmarker
          /\ created <=> ~Rejected'
          /\ Rejected' => log'.rejection.isError]_vars

\* C28 witness: the first two strategies failed, the third loaded, the CPU
\* configuration failed and the GPU one made the landmarker
C28_Witness ==
  /\ MediaPipeRan
  /\ log.tried = <<1, 2, 3>> /\ 4 \in log.loads
  /\ log.configs = <<"CPU", "GPU">>
  /\ tracker.faceLandmarker /\ ~Rejected

\* C29: in the EyeTracker of part_002, once initialize() has completed the
\* detection loop is running: whenever isReady() is true (isInitialized and
\* detectionActive) a next run of detect() is requested.
C29_OldLoopRuns ==
  (tracker.version = "part_002" /\ tracker.isInitialized
      /\ tracker.detectionActive)
     => tracker.scheduled

\* the promise of waitForVideoReady() is settled
Settled == tracker.wait.promise \in {"resolved", "rejectedTimeout", "rejectedAttempts"}

\* C30: waitForVideoReady settles, and once: the promise, once settled, never
\* changes; while it is pending a poll is outstanding, so that it is settled
\* in the end; a poll that finds valid dimensions and readyState >= 2 on a
\* pending promise resolves it and leaves no timer, and nothing else
\* resolves it; it is rejected only at the 150th poll or at 15 s or later;
\* no more than 150 polls are made, and after the 150th no poll timer is set.
C30_SettlesOnce ==
  /\ [](/\ tracker.wait.attempts <= 150
        /\ tracker.wait.pollTimer => tracker.wait.attempts < 150
        /\ tracker.wait.promise = "pending" =>
              (tracker.wait.pollTimer /\ tracker.wait.attempts >= 1)
        /\ tracker.wait.promise = "rejectedAttempts" =>
              tracker.wait.attempts = 150
        /\ tracker.wait.promise = "rejectedTimeout" =>
              tracker.wait.elapsed >= 15000)
  /\ [][/\ Settled => tracker'.wait.promise = tracker.wait.promise
        /\ (/\ tracker'.wait.attempts # tracker.wait.attempts
            /\ ~Settled
            /\ video.videoWidth > 0 /\ video.videoHeight > 0
            /\ video.readyState >= 2)
             => /\ tracker'.wait.promise = "resolved"
                /\ ~tracker'.wait.pollTimer /\ ~tracker'.wait.timeout
        /\ (tracker'.wait.promise = "resolved" /\ ~Settled)
             => /\ tracker'.wait.attempts = tracker.wait.attempts + 1
                /\ video.videoWidth > 0 /\ video.videoHeight > 0
                /\ video.readyState >= 2]_vars
  /\ <>Settled

\* C30 witness: the timeout rejected the promise while polls were late, and
\* a later poll found the video ready: the promise stays rejected and every
\* timer is gone
C30_Witness ==
  /\ tracker.wait.promise = "rejectedTimeout"
  /\ tracker.wait.attempts > 1 /\ tracker.wait.attempts < 150
  /\ ~tracker.wait.pollTimer /\ ~tracker.wait.timeout
  /\ video.readyState >= 2 /\ video.videoWidth > 0

(***************************************************************************)
(* Claims about the EyeTrackingHeatmap component                           *)
(***************************************************************************)
\* C22: in-place retry: once Retry has been invoked on the error screen with
\* the cause of the failure gone, and no initialization is running any more,
\* initialization has completed: isInitialized is true and the error is
\* cleared (the page was not reloaded since).
C22_RetryCompletes ==
  (log.retried /\ browser.healthy /\ ~isInitializing)
     => (isInitialized /\ ~error)

\* C24: auto-debug: whenever tracking is on, the FPS is 0 and debug mode is
\* off, debug mode gets enabled (debugMode true, the eyeTrackingDebug item
\* 'true') unless tracking is stopped or the FPS rises first: a session that
\* processes no frame reaches debugMode = true.
C24_AutoDebug ==
  (isTracking /\ fps = 0 /\ ~debugMode)
     ~> (\/ debugMode /\ browser.eyeTrackingDebug = "true"
         \/ ~isTracking
         \/ fps # 0)

(***************************************************************************)
(* Claims about dispose() and the expiry of the gaze point                 *)
(***************************************************************************)
\* C36: after dispose(), whenever it is called between the runs of detect():
\* detectionActive is false, isReady() is false, getGazePoint() returns
\* null, the stream and the face landmarker are released, no run of detect()
\* is requested, and no later step performs a detection or sets
\* lastGazePoint.
C36_DisposeStops ==
  /\ [](tracker.stage = "disposed" =>
          /\ ~tracker.detectionActive
          /\ ~(tracker.isInitialized /\ tracker.detectionActive)
          /\ lastGazePoint = NULL
          /\ ~tracker.stream /\ ~tracker.faceLandmarker
          /\ ~tracker.scheduled)
  /\ [][tracker.stage = "disposed" =>
          /\ lastGazePoint' = NULL
          /\ DetectRan =>
               log'.detect \notin {"face", "noFace", "noLandmarks", "error"}]_vars

\* C36 witness: dispose() was called on a tracker that had set a gaze point
\* in its latest run and had the next run requested
C36_Witness ==
  /\ tracker.stage = "disposed" /\ tracker.version = "current"
  /\ log.runs >= 2 /\ log.detect = "face"
  /\ lastGazePoint = NULL

\* C37: a detection result without a face keeps a lastGazePoint that is at
\* most 500 ms old and sets an older one to null; and a result that gives no
\* usable gaze point (no face, or a face whose landmarks cannot be used),
\* arriving when the point is older than 500 ms, leaves getGazePoint()
\* returning null.
C37_StaleGazeExpires ==
  [][(DetectRan /\ lastGazePoint # NULL) =>
       /\ log'.detect = "noFace" =>
             lastGazePoint' = IF now - lastGazePoint.timestamp <= 500
                              THEN lastGazePoint ELSE NULL
       /\ (log'.detect \in {"noFace", "noLandmarks"}
             /\ now - lastGazePoint.timestamp > 500) =>
             lastGazePoint' = NULL]_vars
(***************************************************************************)
(* Claims about the mounting and unmounting of the component               *)
(***************************************************************************)
\* every EyeTracker initializeTracking() has constructed, the latest last
EyeTrackers == browser.eyeTrackers \o <<tracker>>

\* the EyeTrackers with an active detection loop
ActiveTrackers ==
  {i \in 1..Len(EyeTrackers) : EyeTrackers[i].detectionActive}

\* the EyeTrackers whose initialize() is in progress
InFlight ==
  {i \in 1..Len(browser.eyeTrackers) : browser.eyeTrackers[i].stage = "new"}
    \cup (IF isInitializing THEN {Len(EyeTrackers)} ELSE {})

\* C31: after the cleanup of the mount effect has run, eventually no
\* EyeTracker that the component created has an active detection loop or a
\* live camera stream, also when initialize() was in progress at that time.
C31_UnmountReleases ==
  mountEffect.cleanedUp ~>
     \A i \in 1..Len(EyeTrackers) :
        ~EyeTrackers[i].detectionActive /\ ~EyeTrackers[i].stream

\* C32: whenever isInitialized is true, the canvas the HeatmapRenderer draws
\* on and the video the EyeTracker reads from are the elements of the main
\* tree as it is mounted now.
C32_MountedElements ==
  isInitialized =>
     /\ mountEffect.heatmapCanvas = browser.elements
     /\ tracker.videoElement = browser.elements

\* C33: at most one initialization is in flight and at most one EyeTracker
\* has an active detection loop; when an EyeTracker has been put in
\* eyeTrackerRef, none of the earlier ones has its detection loop active.
C33_OneInitialization ==
  /\ Cardinality(InFlight) <= 1
  /\ Cardinality(ActiveTrackers) <= 1
  /\ tracker.isInitialized =>
        \A i \in 1..Len(browser.eyeTrackers) :
           ~browser.eyeTrackers[i].detectionActive

\* C34: per mount tryInitialize calls initializeTracking at most 11 times;
\* after a successful attempt the chain has ended (no timer is pending and no
\* further attempt is made); and when the 11th attempt has failed the error
\* is 'Failed to initialize eye tracking. Please refresh the page.'
C34_BoundedAttempts ==
  /\ [](mountEffect.attempts <= 11)
  /\ [](isInitialized => ~mountEffect.timer)
  /\ []((mountEffect.attempts = 11 /\ ~isInitializing /\ ~isInitialized)
          => /\ error
             /\ log.setError =
                  "Failed to initialize eye tracking. Please refresh the page."
             /\ ~mountEffect.timer)
  /\ [][isInitialized => mountEffect'.attempts = mountEffect.attempts]_vars

\* C34 witness: the 11th attempt has failed and the chain has given up
C34_Witness ==
  /\ mountEffect.attempts = 11 /\ mountEffect.retryCount = 10
  /\ ~mountEffect.timer /\ ~isInitialized /\ error
  /\ log.setError = "Failed to initialize eye tracking. Please refresh the page."

\* C35: after the cleanup of the mount effect has run no timer of the retry
\* chain is pending and tryInitialize starts no further attempt.
C35_NoAttemptAfterCleanup ==
  /\ [](mountEffect.cleanedUp => ~mountEffect.timer)
  /\ [][mountEffect.cleanedUp =>
          mountEffect'.attempts = mountEffect.attempts]_vars
(***************************************************************************)
(* Claims about exportImage()                                              *)
(***************************************************************************)
\* the pixel of an export at column x, row y (from 0)
ExportedPixel(e, x, y) == e.pixels[y + 1][x + 1]

====
